---- MODULE Spec2Model ----
(***************************************************************************)
(* ID-masking: OCR structure recovery (utils/ocrHelper.ts), sensitive      *)
(* field extraction (utils/idParsingLogic.ts) and region synthesis         *)
(* (components/MaskingWorkspace.tsx).                                      *)
(*                                                                         *)
(* Strings are sequences of characters; a character is a one-element       *)
(* string.  Hangul syllables are written in romanised form ("un" "jeon"    *)
(* for the two syllables of the driving keyword, and so on), one syllable  *)
(* being one character.  Coordinates are integers; the products with 0.15  *)
(* and the quotient width/totalLength are computed exactly.                *)
(***************************************************************************)
EXTENDS Integers, Sequences, FiniteSets, TLC

(***************************************************************************)
(* Characters and character classes of the regular expressions.            *)
(***************************************************************************)
Digits == {"0", "1", "2", "3", "4", "5", "6", "7", "8", "9"}
Upper == {"A", "B", "D", "E", "I", "M", "O", "P", "R", "S", "T", "V", "X", "Z"}
Lower == {"a", "b", "c", "d", "e", "i", "r", "v", "x"}
WhiteSpace == {" ", "\t", "\n", "\r"}

IsDigit(c) == c \in Digits
IsSpace(c) == c \in WhiteSpace
IsUpper(c) == c \in Upper

\* String.prototype.toLowerCase on one character
toLowerCaseChar(c) ==
    CASE c = "A" -> "a" [] c = "B" -> "b" [] c = "D" -> "d" [] c = "E" -> "e"
      [] c = "I" -> "i" [] c = "R" -> "r" [] c = "V" -> "v" [] c = "X" -> "x"
      [] c = "M" -> "m" [] c = "O" -> "o" [] c = "P" -> "p" [] c = "S" -> "s"
      [] c = "T" -> "t" [] c = "Z" -> "z"
      [] OTHER -> c

toLowerCase(s) == [i \in 1..Len(s) |-> toLowerCaseChar(s[i])]

(***************************************************************************)
(* String helpers (0-based positions are converted at the call sites).     *)
(***************************************************************************)
Min(S) == CHOOSE m \in S : \A n \in S : m <= n
Max(S) == CHOOSE m \in S : \A n \in S : m >= n

\* s.substring(from, to) with 0-based from (inclusive) and to (exclusive)
Substring(s, from, to) ==
    LET f == IF from < 0 THEN 0 ELSE IF from > Len(s) THEN Len(s) ELSE from
        t == IF to < 0 THEN 0 ELSE IF to > Len(s) THEN Len(s) ELSE to
        lo == IF f <= t THEN f ELSE t
        hi == IF f <= t THEN t ELSE f
    IN [i \in 1..(hi - lo) |-> s[lo + i]]

\* s occurs in t at 0-based position p
OccursAt(t, s, p) ==
    /\ p >= 0
    /\ p + Len(s) <= Len(t)
    /\ \A i \in 1..Len(s) : t[p + i] = s[i]

\* t.indexOf(s): 0-based position of the first occurrence, -1 when none
IndexOf(t, s) ==
    LET P == {p \in 0..Len(t) : OccursAt(t, s, p)}
    IN IF P = {} THEN -1 ELSE Min(P)

\* t.includes(s)
Includes(t, s) == IndexOf(t, s) # -1

\* s.trim()
Trim(s) ==
    LET V == {i \in 1..Len(s) : ~IsSpace(s[i])}
    IN IF V = {} THEN <<>> ELSE Substring(s, Min(V) - 1, Max(V))

\* s.replace(/\D/g, '')
RECURSIVE DigitsOnly(_)
DigitsOnly(s) ==
    IF s = <<>> THEN <<>>
    ELSE IF IsDigit(Head(s)) THEN <<Head(s)>> \o DigitsOnly(Tail(s))
    ELSE DigitsOnly(Tail(s))

\* s.replace(/\s/g, '')
RECURSIVE StripSpaces(_)
StripSpaces(s) ==
    IF s = <<>> THEN <<>>
    ELSE IF IsSpace(Head(s)) THEN StripSpaces(Tail(s))
    ELSE <<Head(s)>> \o StripSpaces(Tail(s))

\* parts.join(sep) for a sequence of strings
RECURSIVE Join(_, _)
Join(parts, sep) ==
    IF parts = <<>> THEN <<>>
    ELSE IF Len(parts) = 1 THEN parts[1]
    ELSE parts[1] \o sep \o Join(Tail(parts), sep)

\* concatenation of a sequence of sequences
RECURSIVE Flatten(_)
Flatten(ss) == IF ss = <<>> THEN <<>> ELSE Head(ss) \o Flatten(Tail(ss))

\* text.split(/\r?\n/)
RECURSIVE SplitLines(_, _)
SplitLines(s, acc) ==
    IF s = <<>> THEN <<acc>>
    ELSE IF Head(s) = "\n" THEN <<acc>> \o SplitLines(Tail(s), <<>>)
    ELSE IF Head(s) = "\r" /\ Len(s) >= 2 /\ s[2] = "\n"
         THEN <<acc>> \o SplitLines(Tail(Tail(s)), <<>>)
    ELSE SplitLines(Tail(s), Append(acc, Head(s)))

\* lineText.split(/\s+/)
RECURSIVE SplitWhitespace(_, _, _)
SplitWhitespace(s, acc, inSep) ==
    IF s = <<>> THEN <<acc>>
    ELSE IF IsSpace(Head(s))
         THEN IF inSep THEN SplitWhitespace(Tail(s), acc, TRUE)
              ELSE <<acc>> \o SplitWhitespace(Tail(s), <<>>, TRUE)
    ELSE SplitWhitespace(Tail(s), Append(acc, Head(s)), FALSE)

(***************************************************************************)
(* Bounding boxes.                                                         *)
(***************************************************************************)
BBox(a, b, c, d) == [x0 |-> a, y0 |-> b, x1 |-> c, y1 |-> d]
ZeroBBox == BBox(0, 0, 0, 0)

Abs(n) == IF n < 0 THEN 0 - n ELSE n
MinOf(a, b) == IF a <= b THEN a ELSE b
MaxOf(a, b) == IF a >= b THEN a ELSE b

\* Math.floor(n / d) and Math.ceil(n / d) of the exact quotient, d > 0
FloorDiv(n, d) == n \div d
CeilDiv(n, d) == 0 - ((0 - n) \div d)

\* mergeBBoxes: the union box of a sequence of boxes
mergeBBoxes(bboxes) ==
    IF Len(bboxes) = 0 THEN ZeroBBox
    ELSE [x0 |-> Min({bboxes[i].x0 : i \in 1..Len(bboxes)}),
          y0 |-> Min({bboxes[i].y0 : i \in 1..Len(bboxes)}),
          x1 |-> Max({bboxes[i].x1 : i \in 1..Len(bboxes)}),
          y1 |-> Max({bboxes[i].y1 : i \in 1..Len(bboxes)})]

(***************************************************************************)
(* Structure recovery: utils/ocrHelper.ts                                  *)
(*                                                                         *)
(* A word is [text, bbox, confidence], a line is [text, bbox, words].      *)
(* The engine's output `data` has the optional members blocks, lines,      *)
(* words, hocr and text; an optional member is [present, val].  A block is *)
(* a sequence of paragraphs, a paragraph a sequence of lines.  The hOCR    *)
(* string is given by the document the DOM parser builds from it: the      *)
(* sequence of its ocr_line nodes (kind "doc"), or it is the empty string  *)
(* (kind "empty") or missing (kind "absent").                              *)
(***************************************************************************)
Word(t, b, c) == [text |-> t, bbox |-> b, confidence |-> c]
Line(t, b, ws) == [text |-> t, bbox |-> b, words |-> ws]
Present(v) == [present |-> TRUE, val |-> v]
Absent(v) == [present |-> FALSE, val |-> v]

\* title.match(/bbox (\d+) (\d+) (\d+) (\d+)/): the box of a node's title,
\* all zeros when the title carries none
titleBBox(title) == IF title.hasBBox THEN title.bbox ELSE ZeroBBox

parseHOCRWord(wordNode) == Word(wordNode.textContent, titleBBox(wordNode.title), 100)

parseHOCRLine(lineNode) ==
    LET words == [i \in 1..Len(lineNode.words) |-> parseHOCRWord(lineNode.words[i])]
        lineText == Join([i \in 1..Len(words) |-> words[i].text], <<" ">>)
        finalLineText == IF lineText # <<>> THEN lineText ELSE Trim(lineNode.textContent)
    IN Line(finalLineText, titleBBox(lineNode.title), words)

RECURSIVE parseHOCRNodes(_)
parseHOCRNodes(nodes) ==
    IF nodes = <<>> THEN <<>>
    ELSE LET l == parseHOCRLine(Head(nodes))
         IN (IF l.text # <<>> THEN <<l>> ELSE <<>>) \o parseHOCRNodes(Tail(nodes))

parseHOCR(hocr) == IF hocr.kind # "doc" THEN <<>> ELSE parseHOCRNodes(hocr.lineNodes)

\* the comparator of the sort in reconstructLinesFromWords
wordCompare(a, b) ==
    LET yDiff == a.bbox.y0 - b.bbox.y0
    IN IF Abs(yDiff) < 10 THEN a.bbox.x0 - b.bbox.x0 ELSE yDiff

\* Array.prototype.sort with wordCompare: stable insertion
RECURSIVE insertWord(_, _)
insertWord(sorted, w) ==
    IF sorted = <<>> THEN <<w>>
    ELSE LET last == sorted[Len(sorted)]
         IN IF wordCompare(last, w) > 0
            THEN Append(insertWord(SubSeq(sorted, 1, Len(sorted) - 1), w), last)
            ELSE Append(sorted, w)

RECURSIVE sortWords(_, _)
sortWords(words, sorted) ==
    IF words = <<>> THEN sorted
    ELSE sortWords(Tail(words), insertWord(sorted, Head(words)))

\* a word joins the running line when the vertical centers differ by less
\* than 0.6 times the running line's height
sameLine(currentBBox, wordBBox) ==
    LET height == currentBBox.y1 - currentBBox.y0
    IN 5 * Abs((currentBBox.y0 + currentBBox.y1) - (wordBBox.y0 + wordBBox.y1)) < 6 * height

finishLine(currentLine) ==
    Line(Join([i \in 1..Len(currentLine.words) |-> currentLine.words[i].text], <<" ">>),
         currentLine.bbox, currentLine.words)

\* the forEach of reconstructLinesFromWords; cur is <<>> or <<currentLine>>
RECURSIVE groupWords(_, _, _)
groupWords(sortedWords, cur, lines) ==
    IF sortedWords = <<>>
    THEN IF cur = <<>> THEN lines ELSE Append(lines, finishLine(cur[1]))
    ELSE LET word == Head(sortedWords)
         IN IF cur = <<>>
            THEN groupWords(Tail(sortedWords), <<[words |-> <<word>>, bbox |-> word.bbox]>>, lines)
            ELSE IF sameLine(cur[1].bbox, word.bbox)
            THEN groupWords(Tail(sortedWords),
                            <<[words |-> Append(cur[1].words, word),
                               bbox |-> BBox(MinOf(cur[1].bbox.x0, word.bbox.x0),
                                             MinOf(cur[1].bbox.y0, word.bbox.y0),
                                             MaxOf(cur[1].bbox.x1, word.bbox.x1),
                                             MaxOf(cur[1].bbox.y1, word.bbox.y1))]>>,
                            lines)
            ELSE groupWords(Tail(sortedWords),
                            <<[words |-> <<word>>, bbox |-> word.bbox]>>,
                            Append(lines, finishLine(cur[1])))

reconstructLinesFromWords(words) == groupWords(sortWords(words, <<>>), <<>>, <<>>)

\* the nested lines of data.blocks, in document order
blockLines(data) ==
    IF data.blocks.present
    THEN Flatten([b \in 1..Len(data.blocks.val) |-> Flatten(data.blocks.val[b])])
    ELSE <<>>

\* the lines after the fallback to the top-level line list
nativeLines(data) ==
    IF Len(blockLines(data)) = 0 /\ data.lines.present THEN data.lines.val
    ELSE blockLines(data)

\* data.words || []
nativeWords(data) == IF data.words.present THEN data.words.val ELSE <<>>

hocrTruthy(data) == data.hocr.kind = "doc"
textTruthy(data) == data.text.present /\ Len(data.text.val) > 0

\* a line is blank when line.trim().length = 0
NonBlank(s) == Len(Trim(s)) > 0

\* the dummy line made of the index-th (0-based) non-blank line of the text
textLine(lineText, index) ==
    LET parts == SplitWhitespace(lineText, <<>>, FALSE)
    IN Line(lineText,
            BBox(0, index * 20, 500, (index * 20) + 18),
            [w \in 1..Len(parts) |->
                Word(parts[w],
                     BBox((w - 1) * 50, index * 20, ((w - 1) * 50) + 40, (index * 20) + 18),
                     0)])

textLines(text) ==
    LET rawLines == SelectSeq(SplitLines(text, <<>>), NonBlank)
    IN [i \in 1..Len(rawLines) |-> textLine(rawLines[i], i - 1)]

\* recoveryPath with the hOCR document parsed whenever there are no lines
recoveryPathMarkupFirst(data) ==
    IF Len(nativeLines(data)) = 0 /\ hocrTruthy(data)
    THEN "hocr"
    ELSE IF Len(nativeLines(data)) = 0 /\ Len(nativeWords(data)) > 0
    THEN "words"
    ELSE IF Len(nativeLines(data)) = 0 /\ textTruthy(data)
    THEN "text"
    ELSE "native"

\* which branch of the fallback chain of performOCR is taken
recoveryPath(data) ==
    IF Len(nativeLines(data)) = 0 /\ Len(nativeWords(data)) = 0 /\ hocrTruthy(data)
    THEN "hocr"
    ELSE IF Len(nativeLines(data)) = 0 /\ Len(nativeWords(data)) > 0
    THEN "words"
    ELSE IF Len(nativeLines(data)) = 0 /\ textTruthy(data)
    THEN "text"
    ELSE "native"

\* the lines of the branch taken
recoveredLines(data, path) ==
    CASE path = "hocr" -> parseHOCR(data.hocr)
      [] path = "words" -> reconstructLinesFromWords(nativeWords(data))
      [] path = "text" -> textLines(data.text.val)
      [] OTHER -> nativeLines(data)

\* the flat words: rebuilt from the lines in the hOCR and raw text branches
recoveredWords(data, path, lines) ==
    IF path \in {"hocr", "text"}
    THEN Flatten([i \in 1..Len(lines) |-> lines[i].words])
    ELSE nativeWords(data)

OCRResult(data, path, lines) ==
    [text |-> data.text, words |-> recoveredWords(data, path, lines), lines |-> lines]

\* performOCR, from the engine's data to the returned OCRResult
performOCRBy(data, path) == OCRResult(data, path, recoveredLines(data, path))
performOCR(data) == performOCRBy(data, recoveryPath(data))

(***************************************************************************)
(* Field extraction: utils/idParsingLogic.ts                               *)
(*                                                                         *)
(* A field is [id, label, value, bbox]; a log line is [msg, args, text]    *)
(* with the numbers and the string interpolated into the message.  Line    *)
(* and word indexes are those of the source, counted from 0.               *)
(***************************************************************************)
LabelRRN == "jumin-deungrok-beonho"
LabelBirth == "saengnyeon-woril"
LabelGender == "seongbyeol"
LabelBack == "jumin-beonho-dwitjari"
LabelDL == "unjeon-myeonheo-beonho"
LabelPassport == "yeogwon-beonho"

TypeUnknown == "Unknown"
TypeDL == "unjeon-myeonheojeung"
TypeRC == "jumin-deungrokjeung"
TypeRCInferred == "jumin-deungrokjeung(chujeong)"
TypePassport == "yeogwon"

Field(i, l, v, b) == [id |-> i, label |-> l, value |-> v, bbox |-> b]
Log(m, a, t) == [msg |-> m, args |-> a, text |-> t]
FieldId(prefix, idx) == prefix \o ToString(idx)

\* a character class is [chars, negated]: the characters of chars, or all
\* the others when negated
Class(chars, negated) == [chars |-> chars, negated |-> negated]
InClass(c, class) == (c \in class.chars) # class.negated

\* length of the longest run of characters of a class that starts at the
\* 0-based position p of s
RunLength(s, p, class) ==
    Min({k \in 0..(Len(s) - p) : p + k = Len(s) \/ ~InClass(s[p + k + 1], class)})

IsRrnSeparator == Class(Digits \cup {"\n"}, TRUE)
IsRrnTail == Class(Digits \cup WhiteSpace \cup {"-"}, FALSE)
IsNonDigit == Class(Digits, TRUE)
IsWhiteSpace == Class(WhiteSpace, FALSE)

AllDigits(s, p, n) == p + n <= Len(s) /\ \A i \in 1..n : IsDigit(s[p + i])

\* the separator lengths with which rrnRegex matches at the 0-based start p:
\* six digits, k separator characters, then a tail run of at least 7
rrnSeparators(s, p) ==
    IF ~AllDigits(s, p, 6) THEN {}
    ELSE {k \in 0..RunLength(s, p + 6, IsRrnSeparator) :
              RunLength(s, p + 6 + k, IsRrnTail) >= 7}

\* the match of rrnRegex at the 0-based start p with k separator characters
\* and a tail of n characters
rrnMatch(s, p, k, n) ==
    [found |-> TRUE, index |-> p,
     all |-> Substring(s, p, p + 6 + k + n),
     g1 |-> Substring(s, p, p + 6),
     g2 |-> Substring(s, p + 6 + k, p + 6 + k + n)]
rrnMatchWith(s, p, k) == rrnMatch(s, p, k, RunLength(s, p + 6 + k, IsRrnTail))
rrnMatchAt(s, p) == rrnMatchWith(s, p, Max(rrnSeparators(s, p)))
rrnMatchFrom(s, starts) ==
    IF starts = {} THEN [found |-> FALSE, index |-> -1, all |-> <<>>, g1 |-> <<>>, g2 |-> <<>>]
    ELSE rrnMatchAt(s, Min(starts))

\* text.match(rrnRegex) with rrnRegex = /(\d{6})[^\d\n]*([\d\s-]{7,})/ :
\* the leftmost match, the separator and then the tail as long as possible
rrnRegex(s) == rrnMatchFrom(s, {p \in 0..Len(s) : rrnSeparators(s, p) # {}})

\* interpolateBBox: the part of fullBBox covering length characters from
\* start, of totalLength characters in all (totalLength > 0)
interpolateBBox(fullBBox, totalLength, start, length) ==
    LET width == fullBBox.x1 - fullBBox.x0
        height == fullBBox.y1 - fullBBox.y0
    IN [x0 |-> fullBBox.x0 + FloorDiv(width * start, totalLength),
        y0 |-> fullBBox.y0 + FloorDiv(15 * height, 100),
        x1 |-> fullBBox.x0 + CeilDiv(width * (start + length), totalLength),
        y1 |-> fullBBox.y1 - FloorDiv(15 * height, 100)]

\* the 0-based positions of the digits of s
DigitPositions(s) == {i \in 0..(Len(s) - 1) : IsDigit(s[i + 1])}

\* the n-th smallest (n from 0) element of a set of numbers
RECURSIVE NthSmallest(_, _)
NthSmallest(S, n) == IF n = 0 THEN Min(S) ELSE NthSmallest(S \ {Min(S)}, n - 1)

\* the first and the last visible character of the match, and the number
\* of characters between them
firstVisibleIdx(matchString) ==
    Min({i \in 0..Len(matchString) : i = Len(matchString) \/ ~IsSpace(matchString[i + 1])})
lastVisibleIdx(matchString) ==
    Max({i \in -1..(Len(matchString) - 1) : i = -1 \/ ~IsSpace(matchString[i + 1])})
visibleLengthBetween(matchString, first, last) ==
    IF last >= first THEN last - first + 1 ELSE Len(matchString)
visibleLength(matchString) ==
    visibleLengthBetween(matchString, firstVisibleIdx(matchString), lastVisibleIdx(matchString))

\* position in backPartRaw of the digit taken as the gender digit: the
\* digit that has skipLeadingChars digits before it, 0 when there is none
genderIdxAmong(D, skipLeadingChars) ==
    IF Cardinality(D) > skipLeadingChars THEN NthSmallest(D, skipLeadingChars) ELSE 0
relativeGenderIdx(backPartRaw, skipLeadingChars) ==
    genderIdxAmong(DigitPositions(backPartRaw), skipLeadingChars)

\* first and last position in backPartRaw of the (at most 6) digits that
\* follow the gender digit
digitsAfter(D, genderIdx) ==
    {i \in D : i > genderIdx /\ Cardinality({j \in D : j > genderIdx /\ j <= i}) <= 6}
backDigitPositions(backPartRaw, genderIdx) == digitsAfter(DigitPositions(backPartRaw), genderIdx)
backStartAmong(B, genderIdx) == IF B = {} THEN genderIdx + 1 ELSE Min(B)
backEndAmong(B, backPartRaw) == IF B = {} THEN Len(backPartRaw) - 1 ELSE Max(B)
relativeBackStartIdx(backPartRaw, genderIdx) ==
    backStartAmong(backDigitPositions(backPartRaw, genderIdx), genderIdx)
relativeBackEndIdx(backPartRaw, genderIdx) ==
    backEndAmong(backDigitPositions(backPartRaw, genderIdx), backPartRaw)

\* an RRN has at least 13 digits in all (6 + 7)
rrnAcceptedFrom12(birthPartRaw, backDigits) == Len(birthPartRaw) + Len(backDigits) >= 12
rrnAccepted(birthPartRaw, backDigits) == Len(birthPartRaw) + Len(backDigits) >= 13

\* with 8 digits in the back part the first is taken as a misread hyphen
skipLeadingChars(backDigits) == IF Len(backDigits) = 8 THEN 1 ELSE 0
validBackDigits(backDigits) ==
    IF Len(backDigits) = 8 THEN Substring(backDigits, 1, Len(backDigits)) ELSE backDigits

\* the gender digit and the six digits after it
genderVal(valid) == Substring(valid, 0, 1)
backNumValFive(valid) == Substring(valid, 1, 6)
backNumVal(valid) == Substring(valid, 1, 7)

\* getBBoxForRange: the box of len characters from start of the match
getBBoxForRange(line, matchString, start, len) ==
    interpolateBBox(line.bbox, visibleLength(matchString),
                    start - firstVisibleIdx(matchString), len)

\* the back digits box, shifted right by 2
backBBox(line, matchString, start, len) ==
    [getBBoxForRange(line, matchString, start, len) EXCEPT !.x0 = @ + 2]

\* the three sub-fields, from the positions found in the match
rrnSubFields(line, idx, matchString, birthPartRaw, valid, backPartStartInMatch, genderIdx, backStart, backEnd) ==
    <<Field(FieldId("rrn-birth-", idx), LabelBirth, birthPartRaw,
            getBBoxForRange(line, matchString, IndexOf(matchString, birthPartRaw),
                            Len(birthPartRaw))),
      Field(FieldId("rrn-gender-", idx), LabelGender, genderVal(valid),
            getBBoxForRange(line, matchString, backPartStartInMatch + genderIdx, 1)),
      Field(FieldId("rrn-back-", idx), LabelBack, backNumVal(valid),
            backBBox(line, matchString, backPartStartInMatch + backStart,
                     (backEnd - backStart) + 1))>>

rrnLocalized(line, idx, matchString, birthPartRaw, backPartRaw, valid, genderIdx) ==
    rrnSubFields(line, idx, matchString, birthPartRaw, valid,
                 IndexOf(matchString, backPartRaw), genderIdx,
                 relativeBackStartIdx(backPartRaw, genderIdx),
                 relativeBackEndIdx(backPartRaw, genderIdx))

noiseLog(backDigits) ==
    IF Len(backDigits) = 8
    THEN <<Log("Back part has 8 digits. Assuming 1st digit is noise", <<>>,
               Substring(backDigits, 0, 1))>>
    ELSE <<>>

\* the fields and logs of an accepted match
rrnAcceptedFields(line, idx, matchString, birthPartRaw, backPartRaw, backDigits) ==
    IF Len(validBackDigits(backDigits)) < 7
    THEN [fields |-> <<Field(FieldId("rrn-", idx), LabelRRN, matchString, line.bbox)>>,
          logs |-> <<Log("Found RRN on line", <<idx>>, matchString)>> \o noiseLog(backDigits)
                   \o <<Log("Back part has insufficient digits even after noise check",
                            <<>>, <<>>)>>]
    ELSE [fields |-> <<Field(FieldId("rrn-", idx), LabelRRN, matchString, line.bbox)>>
                     \o rrnLocalized(line, idx, matchString, birthPartRaw, backPartRaw,
                                     validBackDigits(backDigits),
                                     relativeGenderIdx(backPartRaw, skipLeadingChars(backDigits))),
          logs |-> <<Log("Found RRN on line", <<idx>>, matchString)>> \o noiseLog(backDigits)]

rrnFromParts(line, idx, matchString, birthPartRaw, backPartRaw, backDigits) ==
    IF rrnAccepted(birthPartRaw, backDigits)
    THEN rrnAcceptedFields(line, idx, matchString, birthPartRaw, backPartRaw, backDigits)
    ELSE [fields |-> <<>>,
          logs |-> <<Log("Potential RRN match too short/invalid patterns", <<idx>>, <<>>)>>]

rrnFromBackPart(line, idx, match, backPartRaw) ==
    rrnFromParts(line, idx, match.all, match.g1, backPartRaw, DigitsOnly(backPartRaw))

rrnFromMatch(line, idx, match) ==
    IF ~match.found THEN [fields |-> <<>>, logs |-> <<>>]
    ELSE rrnFromBackPart(line, idx, match, Trim(match.g2))

\* the resident registration number (RRN) fields and logs of line idx
rrnLine(line, idx) == rrnFromMatch(line, idx, rrnRegex(line.text))

\* dlMatchLength with the first separator optional
dlMatchLengthOptionalSeparator(s, p) ==
    IF ~AllDigits(s, p, 2) THEN -1
    ELSE LET sep1 == RunLength(s, p + 2, IsNonDigit)
         IN IF ~AllDigits(s, p + 2 + sep1, 6) THEN -1
            ELSE LET q == p + 2 + sep1 + 6
                     sep2 == RunLength(s, q, IsNonDigit)
                 IN IF sep2 < 1 \/ ~AllDigits(s, q + sep2, 2) THEN -1
                    ELSE 2 + sep1 + 6 + sep2 + 2

\* text.match(dlRegex) with dlRegex = /(\d{2})[^0-9]+(\d{6})[^0-9]+(\d{2})/ :
\* the length of the match at the 0-based start p, -1 when there is none
dlMatchLength(s, p) ==
    IF ~AllDigits(s, p, 2) THEN -1
    ELSE LET sep1 == RunLength(s, p + 2, IsNonDigit)
         IN IF sep1 < 1 \/ ~AllDigits(s, p + 2 + sep1, 6) THEN -1
            ELSE LET q == p + 2 + sep1 + 6
                     sep2 == RunLength(s, q, IsNonDigit)
                 IN IF sep2 < 1 \/ ~AllDigits(s, q + sep2, 2) THEN -1
                    ELSE 2 + sep1 + 6 + sep2 + 2

dlMatchFrom(s, starts) ==
    IF starts = {} THEN [found |-> FALSE, index |-> -1, all |-> <<>>]
    ELSE [found |-> TRUE, index |-> Min(starts),
          all |-> Substring(s, Min(starts), Min(starts) + dlMatchLength(s, Min(starts)))]

dlRegex(s) == dlMatchFrom(s, {p \in 0..Len(s) : dlMatchLength(s, p) # -1})

dlFromMatch(line, idx, match, digits) ==
    IF ~match.found THEN [fields |-> <<>>, logs |-> <<>>]
    ELSE IF Len(digits) >= 10
    THEN [fields |-> <<Field(FieldId("dl-num-", idx), LabelDL, match.all, line.bbox)>>,
          logs |-> <<Log("Found DL on line", <<idx>>, match.all)>>]
    ELSE [fields |-> <<>>,
          logs |-> <<Log("Potential DL match too short", <<idx, Len(digits)>>, <<>>)>>]

dlFromRegex(line, idx, match) == dlFromMatch(line, idx, match, DigitsOnly(match.all))

\* the driver license number field and log of line idx
dlLine(line, idx) == dlFromRegex(line, idx, dlRegex(line.text))

IsUpperOrDigit(c) == IsUpper(c) \/ IsDigit(c)

\* passportNumRegex.test(s) with passportNumRegex = /[A-Z][0-9A-Z]{8}/
passportNumRegex(s) ==
    \E p \in 0..Len(s) :
        /\ p + 9 <= Len(s)
        /\ IsUpper(s[p + 1])
        /\ \A i \in 2..9 : IsUpperOrDigit(s[p + i])

\* the passport number field and log of word idx
passportWord(word, idx) ==
    IF Len(word.text) = 9 /\ passportNumRegex(word.text)
    THEN [fields |-> <<Field(FieldId("passport-num-", idx), LabelPassport, word.text, word.bbox)>>,
          logs |-> <<Log("Found Passport Num in word", <<idx>>, word.text)>>]
    ELSE [fields |-> <<>>, logs |-> <<>>]

\* the fields, and the logs, of a sequence of per-item results
allFields(rs) == Flatten([i \in 1..Len(rs) |-> rs[i].fields])
allLogs(rs) == Flatten([i \in 1..Len(rs) |-> rs[i].logs])

hasLabel(fields, label) == \E i \in 1..Len(fields) : fields[i].label = label

\* the keywords of the three document types
KwDriving == <<"un", "jeon">>
KwDriver == <<"d", "r", "i", "v", "e", "r">>
KwResident == <<"ju", "min">>
KwRegistration == <<"deung", "rok", "jeung">>
KwPassportKo == <<"yeo", "gwon">>
KwPassportEn == <<"P", "A", "S", "S", "P", "O", "R", "T">>

\* determineIdType with the passport number tested before the license number
determineIdTypePassportFirst(text, fields) ==
    IF Includes(text, KwDriving) \/ Includes(toLowerCase(text), KwDriver)
    THEN [idType |-> TypeDL, log |-> Log("ID Type inferred from keywords", <<>>, <<TypeDL>>)]
    ELSE IF Includes(text, KwResident) \/ Includes(text, KwRegistration)
    THEN [idType |-> TypeRC, log |-> Log("ID Type inferred from keywords", <<>>, <<TypeRC>>)]
    ELSE IF Includes(text, KwPassportKo) \/ Includes(text, KwPassportEn)
    THEN [idType |-> TypePassport, log |-> Log("ID Type inferred from keywords", <<>>, <<TypePassport>>)]
    ELSE IF hasLabel(fields, LabelPassport)
    THEN [idType |-> TypePassport, log |-> Log("ID Type inferred from fields", <<>>, <<TypePassport>>)]
    ELSE IF hasLabel(fields, LabelDL)
    THEN [idType |-> TypeDL, log |-> Log("ID Type inferred from fields", <<>>, <<TypeDL>>)]
    ELSE IF hasLabel(fields, LabelRRN)
    THEN [idType |-> TypeRCInferred, log |-> Log("ID Type inferred from fields", <<>>, <<TypeRCInferred>>)]
    ELSE [idType |-> TypeUnknown,
          log |-> Log("ID Type Unknown - No keywords or specific fields found", <<>>, <<>>)]

\* determineIdType with the resident-card keywords tested first
determineIdTypeResidentFirst(text, fields) ==
    IF Includes(text, KwResident) \/ Includes(text, KwRegistration)
    THEN [idType |-> TypeRC, log |-> Log("ID Type inferred from keywords", <<>>, <<TypeRC>>)]
    ELSE IF Includes(text, KwDriving) \/ Includes(toLowerCase(text), KwDriver)
    THEN [idType |-> TypeDL, log |-> Log("ID Type inferred from keywords", <<>>, <<TypeDL>>)]
    ELSE IF Includes(text, KwPassportKo) \/ Includes(text, KwPassportEn)
    THEN [idType |-> TypePassport, log |-> Log("ID Type inferred from keywords", <<>>, <<TypePassport>>)]
    ELSE IF hasLabel(fields, LabelDL)
    THEN [idType |-> TypeDL, log |-> Log("ID Type inferred from fields", <<>>, <<TypeDL>>)]
    ELSE IF hasLabel(fields, LabelPassport)
    THEN [idType |-> TypePassport, log |-> Log("ID Type inferred from fields", <<>>, <<TypePassport>>)]
    ELSE IF hasLabel(fields, LabelRRN)
    THEN [idType |-> TypeRCInferred, log |-> Log("ID Type inferred from fields", <<>>, <<TypeRCInferred>>)]
    ELSE [idType |-> TypeUnknown,
          log |-> Log("ID Type Unknown - No keywords or specific fields found", <<>>, <<>>)]

\* determineIdType without the test for an RRN field before the last branch
determineIdTypeNoUnknown(text, fields) ==
    IF Includes(text, KwDriving) \/ Includes(toLowerCase(text), KwDriver)
    THEN [idType |-> TypeDL, log |-> Log("ID Type inferred from keywords", <<>>, <<TypeDL>>)]
    ELSE IF Includes(text, KwResident) \/ Includes(text, KwRegistration)
    THEN [idType |-> TypeRC, log |-> Log("ID Type inferred from keywords", <<>>, <<TypeRC>>)]
    ELSE IF Includes(text, KwPassportKo) \/ Includes(text, KwPassportEn)
    THEN [idType |-> TypePassport, log |-> Log("ID Type inferred from keywords", <<>>, <<TypePassport>>)]
    ELSE IF hasLabel(fields, LabelDL)
    THEN [idType |-> TypeDL, log |-> Log("ID Type inferred from fields", <<>>, <<TypeDL>>)]
    ELSE IF hasLabel(fields, LabelPassport)
    THEN [idType |-> TypePassport, log |-> Log("ID Type inferred from fields", <<>>, <<TypePassport>>)]
    ELSE [idType |-> TypeRCInferred, log |-> Log("ID Type inferred from fields", <<>>, <<TypeRCInferred>>)]

\* the document type and its log, from the full text and the fields of the
\* three number matchers
determineIdType(text, fields) ==
    IF Includes(text, KwDriving) \/ Includes(toLowerCase(text), KwDriver)
    THEN [idType |-> TypeDL, log |-> Log("ID Type inferred from keywords", <<>>, <<TypeDL>>)]
    ELSE IF Includes(text, KwResident) \/ Includes(text, KwRegistration)
    THEN [idType |-> TypeRC, log |-> Log("ID Type inferred from keywords", <<>>, <<TypeRC>>)]
    ELSE IF Includes(text, KwPassportKo) \/ Includes(text, KwPassportEn)
    THEN [idType |-> TypePassport, log |-> Log("ID Type inferred from keywords", <<>>, <<TypePassport>>)]
    ELSE IF hasLabel(fields, LabelDL)
    THEN [idType |-> TypeDL, log |-> Log("ID Type inferred from fields", <<>>, <<TypeDL>>)]
    ELSE IF hasLabel(fields, LabelPassport)
    THEN [idType |-> TypePassport, log |-> Log("ID Type inferred from fields", <<>>, <<TypePassport>>)]
    ELSE IF hasLabel(fields, LabelRRN)
    THEN [idType |-> TypeRCInferred, log |-> Log("ID Type inferred from fields", <<>>, <<TypeRCInferred>>)]
    ELSE [idType |-> TypeUnknown,
          log |-> Log("ID Type Unknown - No keywords or specific fields found", <<>>, <<>>)]

\* the Hangul syllables of the model's alphabet, the class [ga-hih]
Hangul == {"un", "jeon", "ju", "min", "deung", "rok", "jeung", "yeo", "gwon",
           "seo", "ul", "bu", "san", "dae", "gu", "in", "cheon", "gwang", "se", "jong",
           "gyeong", "gi", "gang", "won", "chung", "cheong", "buk", "nam", "ra", "sang",
           "je", "do", "jeok", "seong", "geom", "sa", "gan", "ji", "bang", "chal", "jang",
           "si", "ro"}
IsHangul == Class(Hangul, FALSE)

\* the gazetteer of region names
regions ==
    << <<"seo", "ul">>, <<"bu", "san">>, <<"dae", "gu">>, <<"in", "cheon">>,
       <<"gwang", "ju">>, <<"dae", "jeon">>, <<"ul", "san">>, <<"se", "jong">>,
       <<"gyeong", "gi">>, <<"gang", "won">>, <<"chung", "cheong">>, <<"chung", "buk">>,
       <<"chung", "nam">>, <<"jeon", "ra">>, <<"jeon", "buk">>, <<"jeon", "nam">>,
       <<"gyeong", "sang">>, <<"gyeong", "buk">>, <<"gyeong", "nam">>, <<"je", "ju">>,
       <<"gyeong", "gi", "do">>, <<"gang", "won", "do">>,
       <<"chung", "cheong", "buk", "do">>, <<"chung", "cheong", "nam", "do">>,
       <<"jeon", "ra", "buk", "do">>, <<"jeon", "ra", "nam", "do">>,
       <<"gyeong", "sang", "buk", "do">>, <<"gyeong", "sang", "nam", "do">>,
       <<"je", "ju", "do">> >>

hasRegion(text) ==
    LET lineTextStripped == StripSpaces(text)
    IN \E r \in 1..Len(regions) :
           Includes(text, regions[r]) \/ Includes(lineTextStripped, regions[r])

IsDateSep(c) == c \in {".", "-"}

\* /\d{4}[.-]\d{2}[.-]\d{2}/ at the 0-based start p
strictDateAt(s, p) ==
    /\ p + 10 <= Len(s)
    /\ AllDigits(s, p, 4) /\ IsDateSep(s[p + 5])
    /\ AllDigits(s, p + 5, 2) /\ IsDateSep(s[p + 8])
    /\ AllDigits(s, p + 8, 2)
strictDateRegex(s) == \E p \in 0..Len(s) : strictDateAt(s, p)

\* /\d{4}\s*[.\-]\s*\d{2}\s*[.\-]\s*\d{2}/ at the 0-based start p: the
\* length of the match, -1 when there is none
dateLengthAt(s, p) ==
    IF ~AllDigits(s, p, 4) THEN -1
    ELSE LET a == p + 4 + RunLength(s, p + 4, IsWhiteSpace)
         IN IF a >= Len(s) \/ ~IsDateSep(s[a + 1]) THEN -1
            ELSE LET b == a + 1 + RunLength(s, a + 1, IsWhiteSpace)
                 IN IF ~AllDigits(s, b, 2) THEN -1
                    ELSE LET c == b + 2 + RunLength(s, b + 2, IsWhiteSpace)
                         IN IF c >= Len(s) \/ ~IsDateSep(s[c + 1]) THEN -1
                            ELSE LET d == c + 1 + RunLength(s, c + 1, IsWhiteSpace)
                                 IN IF ~AllDigits(s, d, 2) THEN -1 ELSE (d + 2) - p

\* text.match(dateRegex): the leftmost date
dateRegex(s) ==
    LET starts == {p \in 0..Len(s) : dateLengthAt(s, p) # -1}
    IN IF starts = {} THEN [found |-> FALSE, index |-> -1, all |-> <<>>]
       ELSE [found |-> TRUE, index |-> Min(starts),
             all |-> Substring(s, Min(starts), Min(starts) + dateLengthAt(s, Min(starts)))]

\* periodRegex.test(s): two dates joined by a tilde
periodRegex(s) ==
    \E p \in 0..Len(s) :
        /\ dateLengthAt(s, p) # -1
        /\ LET a == p + dateLengthAt(s, p) + RunLength(s, p + dateLengthAt(s, p), IsWhiteSpace)
           IN /\ a < Len(s)
              /\ s[a + 1] = "~"
              /\ dateLengthAt(s, a + 1 + RunLength(s, a + 1, IsWhiteSpace)) # -1

\* simplePeriodRegex.test(s) with simplePeriodRegex = /~\s*\d{4}[.\-]\d{2}[.\-]\d{2}/
simplePeriodRegex(s) ==
    \E p \in 0..(Len(s) - 1) :
        s[p + 1] = "~" /\ strictDateAt(s, p + 1 + RunLength(s, p + 1, IsWhiteSpace))

KwAptitude == <<"jeok", "seong">>
KwInspection == <<"geom", "sa">>
KwPeriod == <<"gi", "gan">>
KwLocal == <<"ji", "bang">>
KwPoliceChief == <<"gyeong", "chal", "cheong", "jang">>

\* keywordPeriodRegex.test(s)
keywordPeriodRegex(s) ==
    Includes(s, KwAptitude) \/ Includes(s, KwInspection) \/ Includes(s, KwPeriod)

\* authorityRegex: one or more Hangul syllables, an optional "local", then
\* "police chief"; the end (exclusive) of the match at the 0-based start p,
\* -1 when there is none.  The syllable run is taken as long as possible.
authorityEndAt(s, p) ==
    LET run == RunLength(s, p, IsHangul)
        Q == {q \in (p + 1)..(p + run) : OccursAt(s, KwPoliceChief, q)}
    IN IF Q = {} THEN -1 ELSE Max(Q) + Len(KwPoliceChief)

authorityRegex(s) ==
    LET starts == {p \in 0..Len(s) : authorityEndAt(s, p) # -1}
    IN IF starts = {} THEN [found |-> FALSE, index |-> -1, all |-> <<>>]
       ELSE [found |-> TRUE, index |-> Min(starts),
             all |-> Substring(s, Min(starts), authorityEndAt(s, Min(starts)))]

\* the lines merged into the address anchored at line i (0-based): the
\* anchor and the following lines absorbed by the loop j = 1..3
RECURSIVE addressLines(_, _, _)
addressLines(lines, i, j) ==
    IF j > 3 THEN <<>>
    ELSE IF ~(i + j < Len(lines)) THEN addressLines(lines, i, j + 1)
    ELSE LET nextLine == lines[i + j + 1]
             currentHeight == lines[i + 1].bbox.y1 - lines[i + 1].bbox.y0
             gap == nextLine.bbox.y0 - lines[i + j].bbox.y1
         IN IF \/ 2 * gap > 5 * currentHeight
               \/ strictDateRegex(nextLine.text)
               \/ dlRegex(nextLine.text).found
               \/ rrnRegex(nextLine.text).found
            THEN <<>>
            ELSE <<nextLine>> \o addressLines(lines, i, j + 1)

\* isDLLine with the 10px distance itself counted as the same line
isDLLineInclusive(fields, line) ==
    \E f \in 1..Len(fields) :
        fields[f].label = LabelDL /\ Abs(fields[f].bbox.y0 - line.bbox.y0) <= 10

isDLLine(fields, line) ==
    \E f \in 1..Len(fields) :
        fields[f].label = LabelDL /\ Abs(fields[f].bbox.y0 - line.bbox.y0) < 10

LabelAddress == "juso"
LabelPeriod == "gaengsin-gigan"
LabelIssueDate == "balgeubil"
LabelAuthority == "balgeup-gigwan"
LabelIdCode == "sikbyeol-beonho"

\* the address loop from line i (0-based) on: the first anchor that is not
\* a license number line gives the address field and ends the loop
RECURSIVE addressScan(_, _, _)
addressScan(lines, fields, i) ==
    IF i >= Len(lines) THEN [fields |-> <<>>, logs |-> <<>>]
    ELSE IF ~hasRegion(lines[i + 1].text) THEN addressScan(lines, fields, i + 1)
    ELSE LET merged == <<lines[i + 1]>> \o addressLines(lines, i, 1)
         IN IF ~isDLLine(fields, lines[i + 1])
            THEN [fields |-> <<Field(FieldId("addr-", i), LabelAddress,
                                     Join([k \in 1..Len(merged) |-> merged[k].text], <<" ">>),
                                     mergeBBoxes([k \in 1..Len(merged) |-> merged[k].bbox]))>>,
                  logs |-> <<Log("Found Address starting at line", <<i>>, <<>>)>>]
            ELSE LET rest == addressScan(lines, fields, i + 1)
                 IN [fields |-> rest.fields,
                     logs |-> <<Log("Skipped potential address because it overlaps with DL number",
                                    <<i>>, <<>>)>> \o rest.logs]

\* the renewal period field and log of line idx
periodLine(line, idx) ==
    IF /\ periodRegex(line.text) \/ simplePeriodRegex(line.text) \/ keywordPeriodRegex(line.text)
       /\ strictDateRegex(line.text)
    THEN [fields |-> <<Field(FieldId("period-", idx), LabelPeriod, line.text, line.bbox)>>,
          logs |-> <<Log("Found Period at line", <<idx>>, <<>>)>>]
    ELSE [fields |-> <<>>, logs |-> <<>>]

isRRNLine(fields, line) ==
    \E f \in 1..Len(fields) :
        fields[f].label = LabelRRN /\ Abs(fields[f].bbox.y0 - line.bbox.y0) < 10

\* the issue date loop from line i (0-based) down to line 0
RECURSIVE issueDateScan(_, _, _)
issueDateScan(lines, fields, i) ==
    IF i < 0 THEN [fields |-> <<>>, logs |-> <<>>]
    ELSE LET line == lines[i + 1]
             match == dateRegex(line.text)
             isPeriod == \/ periodRegex(line.text) \/ simplePeriodRegex(line.text)
                         \/ Includes(line.text, KwPeriod) \/ Includes(line.text, KwAptitude)
             authorityMatch == authorityRegex(line.text)
         IN IF ~match.found \/ isPeriod \/ isRRNLine(fields, line)
            THEN issueDateScan(lines, fields, i - 1)
            ELSE IF authorityMatch.found
            THEN [fields |-> <<Field(FieldId("issue-date-", i), LabelIssueDate, match.all,
                                     interpolateBBox(line.bbox, Len(line.text),
                                                     match.index, Len(match.all))),
                               Field(FieldId("issue-authority-", i), LabelAuthority,
                                     authorityMatch.all,
                                     interpolateBBox(line.bbox, Len(line.text),
                                                     authorityMatch.index,
                                                     Len(authorityMatch.all)))>>,
                  logs |-> <<Log("Found Issue Date & Authority (Split)", <<i>>, <<>>)>>]
            ELSE [fields |-> <<Field(FieldId("issue-date-", i), LabelIssueDate, match.all,
                                     line.bbox)>>,
                  logs |-> <<Log("Found Issue Date at line", <<i>>, <<>>)>>]

\* the identification code field of word idx
idCodeWord(word, idx) ==
    IF /\ Len(word.text) = 6
       /\ \A i \in 1..Len(word.text) : IsUpperOrDigit(word.text[i])
       /\ \E i \in 1..Len(word.text) : IsUpper(word.text[i])
       /\ \E i \in 1..Len(word.text) : IsDigit(word.text[i])
    THEN [fields |-> <<Field(FieldId("id-code-", idx), LabelIdCode, word.text, word.bbox)>>,
          logs |-> <<>>]
    ELSE [fields |-> <<>>, logs |-> <<>>]

\* parsedResult with the address kept for a driver license only
parsedResultAddressForLicense(text, lines, words, numbers, numberFields, type, address, period, issue, idCode) ==
    [idType |-> type.idType,
     fields |-> numberFields
                \o (IF type.idType = TypeDL
                    THEN address.fields \o allFields(period) \o issue.fields \o allFields(idCode)
                    ELSE <<>>),
     logs |-> <<Log("Text len, Lines, Words", <<Len(text), Len(lines), Len(words)>>, <<>>)>>
              \o allLogs(numbers)
              \o <<type.log>> \o address.logs
              \o (IF type.idType = TypeDL THEN allLogs(period) \o issue.logs ELSE <<>>)]

\* the returned record: the period, issue and code fields are kept for a
\* driver license only
parsedResult(text, lines, words, numbers, numberFields, type, address, period, issue, idCode) ==
    [idType |-> type.idType,
     fields |-> numberFields \o address.fields
                \o (IF type.idType = TypeDL
                    THEN allFields(period) \o issue.fields \o allFields(idCode)
                    ELSE <<>>),
     logs |-> <<Log("Text len, Lines, Words", <<Len(text), Len(lines), Len(words)>>, <<>>)>>
              \o allLogs(numbers)
              \o <<type.log>> \o address.logs
              \o (IF type.idType = TypeDL THEN allLogs(period) \o issue.logs ELSE <<>>)]

\* the issue date is searched among the lines that hold no RRN field
parseDetails(text, lines, words, numbers, numberFields, type, address, period) ==
    parsedResult(text, lines, words, numbers, numberFields, type, address, period,
                 issueDateScan(lines, numberFields \o address.fields \o allFields(period),
                               Len(lines) - 1),
                 [i \in 1..Len(words) |-> idCodeWord(words[i], i - 1)])

\* the type, the address and the period, from the fields of the number matchers
parseAfterNumbers(text, lines, words, numbers, numberFields) ==
    parseDetails(text, lines, words, numbers, numberFields,
                 determineIdType(text, numberFields),
                 addressScan(lines, numberFields, 0),
                 [i \in 1..Len(lines) |-> periodLine(lines[i], i - 1)])

parseNumbers(text, lines, words, numbers) ==
    parseAfterNumbers(text, lines, words, numbers, allFields(numbers))

\* the RRN matcher on every line, then the license matcher on every line,
\* then the passport matcher on every word
parseText(text, lines, words) ==
    parseNumbers(text, lines, words,
                 [i \in 1..Len(lines) |-> rrnLine(lines[i], i - 1)]
                 \o [i \in 1..Len(lines) |-> dlLine(lines[i], i - 1)]
                 \o [i \in 1..Len(words) |-> passportWord(words[i], i - 1)])

\* parseOCRResult: the document type, the fields and the logs of a result
parseOCRResult(result) ==
    parseText(IF result.text.present THEN result.text.val ELSE <<>>,
              result.lines, result.words)

(***************************************************************************)
(* Region synthesis: runOCR in components/MaskingWorkspace.tsx             *)
(***************************************************************************)
Region(i, t, b, x) == [id |-> i, type |-> t, bbox |-> b, text |-> x]
TypeText == "Text"

\* the fields as masking regions
sensitiveRegions(fields) ==
    [i \in 1..Len(fields) |->
        Region(fields[i].id, fields[i].label, fields[i].bbox, fields[i].value)]

\* overlaps with a cover of exactly 0.3 of the line counted as an overlap
overlapsInclusive(lineBBox, srBBox) ==
    LET x0 == MaxOf(lineBBox.x0, srBBox.x0)
        y0 == MaxOf(lineBBox.y0, srBBox.y0)
        x1 == MinOf(lineBBox.x1, srBBox.x1)
        y1 == MinOf(lineBBox.y1, srBBox.y1)
        intersectionArea == (x1 - x0) * (y1 - y0)
        lineArea == (lineBBox.x1 - lineBBox.x0) * (lineBBox.y1 - lineBBox.y0)
    IN x1 > x0 /\ y1 > y0 /\ 10 * intersectionArea >= 3 * lineArea

\* the overlap test of a line's box against one sensitive region's box
overlaps(lineBBox, srBBox) ==
    LET x0 == MaxOf(lineBBox.x0, srBBox.x0)
        y0 == MaxOf(lineBBox.y0, srBBox.y0)
        x1 == MinOf(lineBBox.x1, srBBox.x1)
        y1 == MinOf(lineBBox.y1, srBBox.y1)
        intersectionArea == (x1 - x0) * (y1 - y0)
        lineArea == (lineBBox.x1 - lineBBox.x0) * (lineBBox.y1 - lineBBox.y0)
    IN x1 > x0 /\ y1 > y0 /\ 10 * intersectionArea > 3 * lineArea

\* isOverlapping with only the first sensitive region tested
isOverlappingFirstOnly(line, sensitive) ==
    Len(sensitive) > 0 /\ overlaps(line.bbox, sensitive[1].bbox)

isOverlapping(line, sensitive) ==
    \E i \in 1..Len(sensitive) : overlaps(line.bbox, sensitive[i].bbox)

\* the "Text" regions of the lines not covered by a sensitive region
RECURSIVE otherRegions(_, _, _)
otherRegions(lines, sensitive, idx) ==
    IF idx >= Len(lines) THEN <<>>
    ELSE (IF ~isOverlapping(lines[idx + 1], sensitive) /\ Len(Trim(lines[idx + 1].text)) > 0
          THEN <<Region(FieldId("raw-line-", idx), TypeText,
                        lines[idx + 1].bbox, lines[idx + 1].text)>>
          ELSE <<>>)
         \o otherRegions(lines, sensitive, idx + 1)

newRegions(result, parsed) ==
    sensitiveRegions(parsed.fields)
    \o otherRegions(result.lines, sensitiveRegions(parsed.fields), 0)

\* sensitiveTypes with the birth date among them
sensitiveTypesWithBirth == {LabelRRN, LabelDL, LabelPassport, LabelBirth}

sensitiveTypes == {LabelRRN, LabelDL, LabelPassport}

defaultSelected(parsed) ==
    {sensitiveRegions(parsed.fields)[i].id : i \in
        {j \in 1..Len(parsed.fields) : sensitiveRegions(parsed.fields)[j].type \in sensitiveTypes}}

(***************************************************************************)
(* The engine outputs the model is run on.                                 *)
(***************************************************************************)
MaxSepLen == 2
MaxTailDigits == 8
MaxNarrowWidth == 2
MaxWords == 2

\* all sequences over S of length 0..n
SeqsUpTo(S, n) == UNION {[1..k -> S] : k \in 0..n}

Seq10 == <<"1", "2", "3", "4", "5", "6", "7", "8", "9", "0">>
DigitRun(n) == [i \in 1..n |-> Seq10[((i - 1) % 10) + 1]]
Ones(n) == [i \in 1..n |-> "1"]
InsertAt(s, k, c) == SubSeq(s, 1, k) \o <<c>> \o SubSeq(s, k + 1, Len(s))

\* the words an engine reports for a line: its tokens, each in the line's box
tokensOf(text) == SelectSeq(SplitWhitespace(text, <<>>, FALSE), LAMBDA t : t # <<>>)
lineOf(text, bbox) ==
    Line(text, bbox, [i \in 1..Len(tokensOf(text)) |-> Word(tokensOf(text)[i], bbox, 90)])

\* an engine output made of top-level lines, their words and a full text
dataOfLines(lines, text) ==
    [blocks |-> Absent(<<>>),
     lines |-> Present(lines),
     words |-> Present(Flatten([i \in 1..Len(lines) |-> lines[i].words])),
     hocr |-> [kind |-> "absent", lineNodes |-> <<>>],
     text |-> Present(text)]

PassportText == <<"M", "1", "2", "3", "4", "5", "6", "7", "8">>
PassportWord == Word(PassportText, BBox(10, 10, 100, 30), 90)
OtherWord == Word(<<"a", "b">>, BBox(110, 12, 150, 30), 80)
LowerWord == Word(<<"c">>, BBox(10, 50, 40, 70), 70)
WordPool == {PassportWord, OtherWord, LowerWord}
NativeLineA == Line(PassportText \o <<" ", "a", "b">>, BBox(10, 10, 150, 30), <<PassportWord, OtherWord>>)
NativeLineB == Line(<<"c">>, BBox(10, 50, 40, 70), <<LowerWord>>)

Title(b) == [hasBBox |-> TRUE, bbox |-> b]
NoTitle == [hasBBox |-> FALSE, bbox |-> ZeroBBox]
WordNode(t, title) == [title |-> title, textContent |-> t]
LineNode(t, title, ws) == [title |-> title, textContent |-> t, words |-> ws]
NodeWithWords ==
    LineNode(<<"\n", "D", "1", "\n", "x", "\n">>, Title(BBox(5, 5, 95, 25)),
             <<WordNode(<<"D", "1">>, Title(BBox(5, 5, 40, 25))), WordNode(<<"x">>, NoTitle)>>)
NodeTextOnly == LineNode(<<" ", "e", "x", " ">>, NoTitle, <<>>)
NodeBlank == LineNode(<<" ", "\n">>, Title(BBox(0, 30, 9, 39)), <<WordNode(<<>>, NoTitle)>>)

BlockChoices ==
    {Absent(<<>>), Present(<<>>), Present(<< <<>> >>),
     Present(<< << <<NativeLineA>>, <<>> >>, << <<NativeLineB>> >> >>)}
LineChoices == {Absent(<<>>), Present(<<>>), Present(<<NativeLineB, NativeLineA>>)}
WordChoices == {Absent(<<>>)} \cup {Present(ws) : ws \in SeqsUpTo(WordPool, MaxWords)}
HocrChoices ==
    {[kind |-> "absent", lineNodes |-> <<>>], [kind |-> "empty", lineNodes |-> <<>>],
     [kind |-> "doc", lineNodes |-> <<>>],
     [kind |-> "doc", lineNodes |-> <<NodeBlank>>],
     [kind |-> "doc", lineNodes |-> <<NodeWithWords, NodeBlank, NodeTextOnly>>]}
TextChoices ==
    {Absent(<<>>), Present(<<>>), Present(<<" ", "\n", "\t">>),
     Present(<<"a", "b", " ", " ", "c", "\n", "\n", " ", "d", "\r", "\n", "e", "x">>)}

StructureInputs ==
    {[blocks |-> b, lines |-> l, words |-> w, hocr |-> h, text |-> t] :
        b \in BlockChoices, l \in LineChoices, w \in WordChoices,
        h \in HocrChoices, t \in TextChoices}

\* texts around the resident registration number grammar
Prefixes == {<<>>, <<"A", " ">>, <<"1">>}
Births == {<<"8", "1", "0", "6", "2", "7">>, Ones(6)}
Separators == SeqsUpTo({"-", " "}, MaxSepLen)
Tails ==
    UNION {{DigitRun(n), Ones(n), Append(DigitRun(n), " ")}
           \cup {InsertAt(DigitRun(n), k, " ") : k \in 1..(n - 1)} : n \in 6..MaxTailDigits}
RrnTexts == {p \o b \o s \o t : p \in Prefixes, b \in Births, s \in Separators, t \in Tails}

WideBox == BBox(10, 40, 150, 60)
LineBoxes ==
    {BBox(10, 40, 10 + w, 40 + h) : w \in (0..MaxNarrowWidth) \cup {140}, h \in {0, 20}}

\* every text in the wide box, the texts without prefix in every box
RrnInputs ==
    {dataOfLines(<<lineOf(t, WideBox)>>, t) : t \in RrnTexts}
    \cup {dataOfLines(<<lineOf(b \o s \o t, box)>>, b \o s \o t) :
            b \in Births, s \in {<<>>, <<"-">>}, t \in Tails, box \in LineBoxes}

\* texts around the driver license number grammar
DlSeparators == SeqsUpTo({"-"}, MaxSepLen) \cup {<<" ">>, <<".", "\n">>}
DlTexts ==
    {p \o <<"0", "5">> \o s1 \o m \o s2 \o e :
        p \in Prefixes, s1 \in DlSeparators, s2 \in DlSeparators,
        m \in {<<"0", "0", "9", "3", "3", "7">>, <<"0", "0", "9", "3", "3">>,
               <<"0", "0", "9", "3", "3", "7", "0">>},
        e \in {<<"7", "0">>, <<"7">>, <<"7", "0", "1">>}}
DlInputs == {dataOfLines(<<lineOf(t, WideBox)>>, t) : t \in DlTexts}

\* full texts made of keywords, over the candidates of a few lines
KeywordList ==
    <<KwDriving, <<"D", "r", "i", "v", "e", "r">>, KwResident, KwRegistration,
      KwPassportKo, KwPassportEn, <<"P", "a", "s", "s", "p", "o", "r", "t">> >>
keywordText(sel) ==
    Flatten([i \in 1..Len(KeywordList) |-> IF sel[i] THEN KeywordList[i] \o <<" ">> ELSE <<>>])
KeywordTexts == {keywordText(sel) : sel \in [1..Len(KeywordList) -> BOOLEAN]}

RrnSample == <<"8", "1", "0", "6", "2", "7", "-">> \o DigitRun(7)
RrnShortSample == <<"8", "1", "0", "6", "2", "7", "-">> \o DigitRun(6) \o <<" ">>
DlSample == <<"0", "5", "-", "0", "0", "9", "3", "3", "7", "-", "7", "0">>
PlainSample == <<"a", "b", " ", "c">>
RrnSampleLine == lineOf(RrnSample, BBox(10, 40, 150, 60))
DlSampleLine == lineOf(DlSample, BBox(10, 80, 130, 100))
PassportSampleLine == lineOf(PassportText, BBox(10, 120, 100, 140))
CandidateLines ==
    {<<>>, <<RrnSampleLine>>, <<DlSampleLine>>, <<PassportSampleLine>>,
     <<RrnSampleLine, PassportSampleLine>>,
     <<RrnSampleLine, DlSampleLine, PassportSampleLine>>}
ClassInputs == {dataOfLines(ls, t) : ls \in CandidateLines, t \in KeywordTexts}

\* documents of two lines
SampleTexts == {RrnSample, RrnShortSample, DlSample, PassportText, PlainSample}
TwoLineInputs ==
    {dataOfLines(<<lineOf(t1, BBox(10, 40, 150, 60)), lineOf(t2, BBox(10, 80, 150, 100))>>,
                 t1 \o <<"\n">> \o t2) : t1 \in SampleTexts, t2 \in SampleTexts}

\* texts of the lines of a driver license
DateA == <<"2", "0", "2", "0", ".", "0", "1", ".", "0", "2">>
DateB == <<"2", "0", "3", "0", ".", "1", "2", ".", "3", "1">>
RegionText == <<"seo", "ul", " ", "si">>
RegionSpaced == <<"gang", " ", "won", " ", "do">>
RoadText == <<"ro", " ", "1">>
PeriodFull == DateA \o <<" ", "~", " ">> \o DateB
PeriodSimple == <<"~", " ">> \o DateB
PeriodKeyword == KwAptitude \o KwPeriod \o <<" ">> \o DateB
AuthorityText == DateA \o <<" ", "seo", "ul">> \o KwLocal \o KwPoliceChief
IdCodeText == <<"A", "1", "B", "2", "D", "3">>

\* a line to be placed gap below the previous one
Piece(text, height, gap) == [text |-> text, height |-> height, gap |-> gap]

\* the pieces as lines, one below the other from y on
RECURSIVE stackLines(_, _)
stackLines(pieces, y) ==
    IF pieces = <<>> THEN <<>>
    ELSE <<lineOf(Head(pieces).text,
                  BBox(10, y + Head(pieces).gap, 150, y + Head(pieces).gap + Head(pieces).height))>>
         \o stackLines(Tail(pieces), y + Head(pieces).gap + Head(pieces).height)

\* the engine output of lines, its text being the lines joined by newlines
docOf(lines) == dataOfLines(lines, Join([i \in 1..Len(lines) |-> lines[i].text], <<"\n">>))

\* an address anchor and the lines that follow it
MaxFollowers == 4
Followers ==
    {Piece(RoadText, 20, 10), Piece(RoadText, 40, 10), Piece(RoadText, 20, 60)}
FollowerSpecials ==
    {<<Piece(RoadText, 20, 50), Piece(RoadText, 20, 10)>>,
     <<Piece(RoadText, 20, 51), Piece(RoadText, 20, 10)>>,
     <<Piece(DlSample, 20, 10), Piece(RoadText, 20, 10)>>,
     <<Piece(DateA, 20, 10), Piece(RoadText, 20, 10)>>,
     <<Piece(RrnSample, 20, 10), Piece(RoadText, 20, 10)>>,
     <<Piece(RoadText, 20, 10), Piece(DateA, 20, 10), Piece(RoadText, 20, 10)>>,
     <<Piece(RoadText, 20, 10), Piece(RrnSample, 20, 10), Piece(RoadText, 20, 10)>>,
     <<Piece(RoadText, 10, 10), Piece(RoadText, 20, 30)>>}
AddressInputs ==
    {docOf(stackLines(<<Piece(RegionText, 20, 40)>> \o f, 0)) :
        f \in SeqsUpTo(Followers, MaxFollowers) \cup FollowerSpecials}

\* a license number line and a region line beside it, d lower
RowPair(d) ==
    <<lineOf(DlSample, BBox(10, 40, 130, 60)), lineOf(RegionText, BBox(140, 40 + d, 300, 60 + d))>>
SecondAnchors ==
    {<<>>, <<lineOf(RegionSpaced, BBox(10, 120, 150, 140))>>, <<lineOf(RoadText, BBox(10, 120, 150, 140))>>}
AnchorInputs ==
    {docOf(RowPair(d) \o t) : d \in {-10, -9, 0, 9, 10}, t \in SecondAnchors}
    \cup {docOf(<<RowPair(d)[2], RowPair(d)[1]>> \o t) : d \in {-10, -9, 0, 9, 10}, t \in SecondAnchors}
    \cup {docOf(stackLines(<<Piece(p, 20, 40)>> \o t, 0)) :
            p \in {DlSample \o <<" ">> \o RegionText, PlainSample, RegionSpaced},
            t \in {<<>>, <<Piece(RegionSpaced, 20, 10)>>, <<Piece(RegionText, 20, 10), Piece(RegionSpaced, 20, 10)>>}}

\* driver licenses, resident cards and untitled documents: every choice of
\* title, number lines, address, period, issue date and identification code
Optional(t) == {<<>>, <<Piece(t, 20, 20)>>}
LicenseInputs ==
    {docOf(stackLines(title \o rrn \o dl \o addr \o period \o issue \o code, 0)) :
        title \in Optional(KwDriving) \cup Optional(KwResident),
        rrn \in Optional(RrnSample), dl \in Optional(DlSample), addr \in Optional(RegionText),
        period \in Optional(PeriodFull) \cup Optional(PeriodSimple) \cup Optional(PeriodKeyword),
        issue \in Optional(AuthorityText) \cup Optional(DateA),
        code \in Optional(IdCodeText)}

\* a line whose passport number word covers w hundredths of the line's box
CoveredLine(w) ==
    Line(PassportText \o <<" ", "a", "b">>, BBox(0, 0, 100, 20),
         <<Word(PassportText, BBox(0, 0, w, 20), 90), Word(<<"a", "b">>, BBox(w + 5, 0, 100, 20), 80)>>)
\* a markup line of two empty words: its text is the single space that joins them
NodeTwoEmpty ==
    LineNode(<<>>, Title(BBox(5, 30, 95, 50)), <<WordNode(<<>>, NoTitle), WordNode(<<>>, NoTitle)>>)
SynthesisInputs ==
    {docOf(<<CoveredLine(w)>> \o t) : w \in {29, 30, 31, 60}, t \in {<<>>, <<NativeLineB>>}}
    \cup {[blocks |-> Absent(<<>>), lines |-> Absent(<<>>), words |-> Absent(<<>>),
           hocr |-> [kind |-> "doc", lineNodes |-> ns], text |-> Absent(<<>>)] :
            ns \in {<<NodeTwoEmpty>>, <<NodeWithWords, NodeTwoEmpty>>}}

\* flat word lists around the tolerances of the line reconstruction
ReconWords ==
    {Word(<<"a">>, BBox(10, 12, 40, 32), 90), Word(<<"b">>, BBox(50, 10, 90, 30), 90),
     Word(<<"c">>, BBox(100, 22, 140, 42), 90), Word(<<"d">>, BBox(100, 21, 140, 41), 90),
     Word(<<"e">>, BBox(100, 23, 140, 43), 90)}
ReconInputs ==
    {[blocks |-> Absent(<<>>), lines |-> Absent(<<>>), words |-> Present(ws),
      hocr |-> [kind |-> "absent", lineNodes |-> <<>>], text |-> Absent(<<>>)] :
        ws \in SeqsUpTo(ReconWords, MaxWords)}

\* tails of 9 and 10 digits, and a separator run of 4 characters
LongTails == {DigitRun(9), DigitRun(10), InsertAt(DigitRun(9), 1, " ")}
LongSeparator == <<" ", "-", "-", " ">>
LongTailInputs ==
    {dataOfLines(<<lineOf(b \o <<"-">> \o t, WideBox)>>, b \o <<"-">> \o t) :
        b \in Births, t \in LongTails}
    \cup {dataOfLines(<<lineOf(b \o LongSeparator \o DigitRun(7), WideBox)>>,
                      b \o LongSeparator \o DigitRun(7)) : b \in Births}

\* driver licenses with up to three lines of dates below the title, and
\* with a date beside an ID number line, d lower
PeriodInspection == KwInspection \o <<" ">> \o DateB
PeriodSpaced == KwPeriod \o <<" ", "2", "0", "3", "0", ".", " ", "1", "2", ".", " ", "3", "1">>
DateLines == {DateA, AuthorityText, PeriodFull, PeriodInspection, PeriodSpaced, RoadText}
TitlePiece == Piece(KwDriving, 20, 0)
DateRow(d) ==
    <<lineOf(KwDriving, BBox(10, 0, 150, 20)), lineOf(DateB, BBox(10, 30, 150, 50)),
      lineOf(RrnSample, BBox(10, 100, 150, 120)),
      lineOf(DateA, BBox(160, 100 + d, 300, 120 + d))>>
DateInputs ==
    {docOf(stackLines(<<TitlePiece>> \o [k \in 1..Len(ls) |-> Piece(ls[k], 20, 10)], 0)) :
        ls \in SeqsUpTo(DateLines, 3)}
    \cup {docOf(DateRow(d)) : d \in {-10, -9, 0, 9, 10}}

RawInputs ==
    StructureInputs \cup RrnInputs \cup DlInputs \cup ClassInputs \cup TwoLineInputs
    \cup AddressInputs \cup AnchorInputs \cup LicenseInputs \cup SynthesisInputs \cup ReconInputs
    \cup LongTailInputs \cup DateInputs

(***************************************************************************)
(* The workspace: components/MaskingWorkspace.tsx                          *)
(*                                                                         *)
(* data is what the engine recognizes in the image file; ocrCall is the    *)
(* state of the promise returned by performOCR.  ocrResult and parsedData  *)
(* are <<>> for null and <<v>> for the value v.                            *)
(*                                                                         *)
(* runs and firstRun are history variables: the number of times the effect *)
(* on imageFile has run, and <<>> or <<r>> for the type, the regions and   *)
(* the selection r set by the first call that resolved.                    *)
(*                                                                         *)
(* isDrawing, startPos and currentPos are the state of a rectangle drawn   *)
(* with the mouse and naturalDimensions is the size read from the image    *)
(* element; positions and sizes are <<>> for null.  now is the value that  *)
(* Date.now() returns.                                                     *)
(***************************************************************************)
VARIABLES data, ocrCall, status, ocrResult, parsedData, maskingRegions, selectedRegions,
          runs, firstRun, isDrawing, startPos, currentPos, naturalDimensions, now

drawing == <<isDrawing, startPos, currentPos, naturalDimensions, now>>

vars ==
    <<data, ocrCall, status, ocrResult, parsedData, maskingRegions, selectedRegions,
      runs, firstRun, isDrawing, startPos, currentPos, naturalDimensions, now>>

\* the most runs of the effect on imageFile
MaxRuns == 2

\* the state of a component that has been mounted
mounted ==
    /\ ocrCall = "none"
    /\ status = "idle"
    /\ ocrResult = <<>>
    /\ parsedData = <<>>
    /\ maskingRegions = <<>>
    /\ selectedRegions = {}
    /\ runs = 0
    /\ firstRun = <<>>
    /\ isDrawing = FALSE
    /\ startPos = <<>>
    /\ currentPos = <<>>
    /\ naturalDimensions = <<>>
    /\ now = 0

Init ==
    /\ data \in RawInputs
    /\ mounted

\* the body of the effect on imageFile: reset the state and call performOCR
resetAndCall ==
    /\ ocrCall' = "pending"
    /\ status' = "processing"
    /\ ocrResult' = <<>>
    /\ parsedData' = <<>>
    /\ maskingRegions' = <<>>
    /\ selectedRegions' = {}
    /\ runs' = runs + 1
    /\ UNCHANGED <<data, firstRun, drawing>>

\* the effect on imageFile, when the component is mounted
StartOCR ==
    /\ ocrCall = "none"
    /\ resetAndCall

\* the effect on imageFile runs again, for a file with the same content,
\* after the previous call has settled
ReloadImage ==
    /\ ocrCall \in {"resolved", "rejected"}
    /\ runs < MaxRuns
    /\ resetAndCall

\* what a resolved run has set
RunRecord(idType, rs, selected) ==
    [idType |-> idType, regions |-> rs, selected |-> selected]
recordRun(idType, rs, selected) ==
    firstRun' = IF firstRun = <<>> THEN <<RunRecord(idType, rs, selected)>> ELSE firstRun

\* a region whose id carries the number of the run
numbered(region) == [region EXCEPT !.id = @ \o "#" \o ToString(runs)]

\* setParsed with region ids that carry a counter kept between the runs
setParsedNumbered(result, parsed) ==
    /\ ocrResult' = <<result>>
    /\ parsedData' = <<parsed>>
    /\ maskingRegions' = [k \in 1..Len(newRegions(result, parsed)) |->
                             numbered(newRegions(result, parsed)[k])]
    /\ selectedRegions' = {id \o "#" \o ToString(runs) : id \in defaultSelected(parsed)}
    /\ recordRun(parsed.idType,
                 [k \in 1..Len(newRegions(result, parsed)) |->
                     numbered(newRegions(result, parsed)[k])],
                 {id \o "#" \o ToString(runs) : id \in defaultSelected(parsed)})

\* the state set by runOCR from the OCR result and the parsed data
setParsed(result, parsed) ==
    /\ ocrResult' = <<result>>
    /\ parsedData' = <<parsed>>
    /\ maskingRegions' = newRegions(result, parsed)
    /\ selectedRegions' = defaultSelected(parsed)
    /\ recordRun(parsed.idType, newRegions(result, parsed), defaultSelected(parsed))

runOCR(result) == setParsed(result, parseOCRResult(result))

\* runOCR after performOCR has resolved
OcrResolve ==
    /\ ocrCall = "pending"
    /\ runOCR(performOCR(data))
    /\ ocrCall' = "resolved"
    /\ status' = "ready"
    /\ UNCHANGED <<data, runs, drawing>>

\* runOCR whose rejected call ends the processing view all the same
OcrRejectReady ==
    /\ ocrCall = "pending"
    /\ ocrCall' = "rejected"
    /\ status' = "ready"
    /\ UNCHANGED <<data, ocrResult, parsedData, maskingRegions, selectedRegions,
                   runs, firstRun, drawing>>

\* runOCR after performOCR has rejected: the error is logged, nothing is set
OcrReject ==
    /\ ocrCall = "pending"
    /\ ocrCall' = "rejected"
    /\ UNCHANGED <<data, status, ocrResult, parsedData, maskingRegions, selectedRegions,
                   runs, firstRun, drawing>>

Next == StartOCR \/ OcrResolve \/ OcrReject

Spec == Init /\ [][Next]_vars

\* the workspace when the image can be loaded again
NextReload == StartOCR \/ OcrResolve \/ OcrReject \/ ReloadImage

\* the images loaded again: the documents of every kind of field
ReloadInputs ==
    ClassInputs \cup TwoLineInputs \cup AnchorInputs \cup LicenseInputs \cup SynthesisInputs
    \cup ReconInputs

InitReload ==
    /\ data \in ReloadInputs
    /\ mounted

SpecReload == InitReload /\ [][NextReload]_vars

(***************************************************************************)
(* The workspace once it is ready: the regions are toggled and rectangles  *)
(* are drawn on the image with the mouse.                                  *)
(***************************************************************************)
\* the images the rectangles are drawn on
WorkspaceTexts == {DlSample, PlainSample}
WorkspaceInputs ==
    {dataOfLines(<<lineOf(t1, BBox(10, 40, 150, 60)), lineOf(t2, BBox(10, 80, 150, 100))>>,
                 t1 \o <<"\n">> \o t2) : t1 \in WorkspaceTexts, t2 \in WorkspaceTexts}

\* the most manual regions drawn, and the last value of Date.now()
MaxManual == 2
MaxClock == 1

\* the positions of the mouse, relative to the container of the image
Pos(x, y) == [x |-> x, y |-> y]
Points == {Pos(0, 0), Pos(5, 6), Pos(6, 5), Pos(6, 6)}

\* the size the image is rendered at and the sizes read from the image element
RenderedWidth == 100
RenderedHeight == 100
NaturalSizes == {[width |-> 100, height |-> 100], [width |-> 150, height |-> 100]}

TypeManual == "Manual"
\* t.manual
manualText == <<"Manual", " ", "Selection">>

\* Math.round(screen * (natural / rendered)) for screen >= 0
roundScaled(screen, natural, rendered) == (2 * screen * natural + rendered) \div (2 * rendered)

\* the rectangle between two positions, in natural coordinates
naturalBBox(s, c, refDims) ==
    BBox(roundScaled(MinOf(s.x, c.x), refDims.width, RenderedWidth),
         roundScaled(MinOf(s.y, c.y), refDims.height, RenderedHeight),
         roundScaled(MaxOf(s.x, c.x), refDims.width, RenderedWidth),
         roundScaled(MaxOf(s.y, c.y), refDims.height, RenderedHeight))

\* the rectangle between two positions is not ignored as too small
largeEnough(s, c) ==
    /\ Abs(MaxOf(s.x, c.x) - MinOf(s.x, c.x)) > 5
    /\ Abs(MaxOf(s.y, c.y) - MinOf(s.y, c.y)) > 5

manualId(time) == "manual-" \o ToString(time)
manualRegions == {k \in 1..Len(maskingRegions) : maskingRegions[k].type = TypeManual}

\* toggleRegion that selects the id and never removes it
toggleRegionAddOnly(id) ==
    /\ selectedRegions' = selectedRegions \cup {id}
    /\ UNCHANGED <<data, ocrCall, status, ocrResult, parsedData, maskingRegions,
                   runs, firstRun, drawing>>

toggleRegion(id) ==
    /\ selectedRegions' = IF id \in selectedRegions THEN selectedRegions \ {id}
                          ELSE selectedRegions \cup {id}
    /\ UNCHANGED <<data, ocrCall, status, ocrResult, parsedData, maskingRegions,
                   runs, firstRun, drawing>>

\* a click on a region of the overlay or of the lists
ToggleRegion ==
    /\ status = "ready"
    /\ \E k \in 1..Len(maskingRegions) : toggleRegion(maskingRegions[k].id)

handleMouseDown(p) ==
    /\ isDrawing' = TRUE
    /\ startPos' = <<p>>
    /\ currentPos' = <<p>>
    /\ UNCHANGED <<data, ocrCall, status, ocrResult, parsedData, maskingRegions,
                   selectedRegions, runs, firstRun, naturalDimensions, now>>

MouseDown ==
    /\ status = "ready"
    /\ \E p \in Points : handleMouseDown(p)

handleMouseMove(p) ==
    /\ isDrawing
    /\ currentPos' = <<p>>
    /\ UNCHANGED <<data, ocrCall, status, ocrResult, parsedData, maskingRegions,
                   selectedRegions, runs, firstRun, isDrawing, startPos, naturalDimensions,
                   now>>

MouseMove ==
    /\ status = "ready"
    /\ \E p \in Points : handleMouseMove(p)

\* the manual region of the rectangle drawn, appended and selected
addManual(newId, bbox) ==
    /\ maskingRegions' = Append(maskingRegions, Region(newId, TypeManual, bbox, manualText))
    /\ selectedRegions' = selectedRegions \cup {newId}

\* the mouse is released on the image, or leaves it
handleMouseUp ==
    /\ isDrawing
    /\ startPos # <<>>
    /\ currentPos # <<>>
    /\ naturalDimensions # <<>>
    /\ IF largeEnough(startPos[1], currentPos[1])
       THEN /\ Cardinality(manualRegions) < MaxManual
            /\ addManual(manualId(now),
                         naturalBBox(startPos[1], currentPos[1], naturalDimensions[1]))
       ELSE UNCHANGED <<maskingRegions, selectedRegions>>
    /\ isDrawing' = FALSE
    /\ startPos' = <<>>
    /\ currentPos' = <<>>
    /\ UNCHANGED <<data, ocrCall, status, ocrResult, parsedData, runs, firstRun,
                   naturalDimensions, now>>

MouseUp ==
    /\ status = "ready"
    /\ handleMouseUp

\* the image element is rendered and its size is read
ImageLoad ==
    /\ status = "ready"
    /\ naturalDimensions = <<>>
    /\ \E d \in NaturalSizes : naturalDimensions' = <<d>>
    /\ UNCHANGED <<data, ocrCall, status, ocrResult, parsedData, maskingRegions,
                   selectedRegions, runs, firstRun, isDrawing, startPos, currentPos, now>>

\* a millisecond passes
Tick ==
    /\ now < MaxClock
    /\ now' = now + 1
    /\ UNCHANGED <<data, ocrCall, status, ocrResult, parsedData, maskingRegions,
                   selectedRegions, runs, firstRun, isDrawing, startPos, currentPos,
                   naturalDimensions>>

NextWorkspace ==
    \/ StartOCR
    \/ OcrResolve
    \/ OcrReject
    \/ ToggleRegion
    \/ MouseDown
    \/ MouseMove
    \/ MouseUp
    \/ ImageLoad
    \/ Tick

InitWorkspace ==
    /\ data \in WorkspaceInputs
    /\ mounted

SpecWorkspace == InitWorkspace /\ [][NextWorkspace]_vars

(***************************************************************************)
(* Properties.  They are stated on the state the workspace is in once      *)
(* runOCR has completed: the recognized document, the parsed fields and    *)
(* the regions of the engine output `data`.                                *)
(***************************************************************************)
Ready == status = "ready"
doc == ocrResult[1]
parsed == parsedData[1]
wordsOfLines(lines) == Flatten([i \in 1..Len(lines) |-> lines[i].words])
fieldsWithId(id) == {k \in 1..Len(parsed.fields) : parsed.fields[k].id = id}
fieldsWithLabel(label) == {k \in 1..Len(parsed.fields) : parsed.fields[k].label = label}
WellFormed(b) == b.x1 >= b.x0 /\ b.y1 >= b.y0

\* C1: the flat word list of the recognized document is the concatenation,
\* in order, of the word lists of its lines.
C1_WordsAreFlattenedLines == Ready => doc.words = wordsOfLines(doc.lines)

\* the engine output has no blocks, no lines, no words, no markup and an
\* empty or absent text
StructurallyAbsent(d) ==
    /\ ~d.blocks.present \/ Len(d.blocks.val) = 0
    /\ ~d.lines.present \/ Len(d.lines.val) = 0
    /\ ~d.words.present \/ Len(d.words.val) = 0
    /\ d.hocr.kind \in {"absent", "empty"}
    /\ ~d.text.present \/ Len(d.text.val) = 0

\* C2: an engine output without any structure and without text gives a
\* document with no line and no word, no field, the type Unknown and no
\* region.
C2_StructuralAbsenceIsEmpty ==
    (Ready /\ StructurallyAbsent(data)) =>
        /\ doc.lines = <<>>
        /\ doc.words = <<>>
        /\ parsed.fields = <<>>
        /\ parsed.idType = TypeUnknown
        /\ maskingRegions = <<>>
        /\ selectedRegions = {}

C2_Witness ==
    /\ Ready
    /\ StructurallyAbsent(data)
    /\ ~data.text.present
    /\ data.hocr.kind = "empty"
    /\ data.words.present

\* no nested line and no top-level line, a markup document that parses to
\* at least one line, and a non-empty flat word list
MarkupAndWords(d) ==
    /\ Len(blockLines(d)) = 0
    /\ ~d.lines.present \/ Len(d.lines.val) = 0
    /\ Len(parseHOCR(d.hocr)) > 0
    /\ d.words.present /\ Len(d.words.val) > 0

linesByOrder(d) ==
    IF Len(blockLines(d)) > 0 THEN blockLines(d)
    ELSE IF d.lines.present /\ Len(d.lines.val) > 0 THEN d.lines.val
    ELSE IF d.words.present /\ Len(d.words.val) > 0 THEN reconstructLinesFromWords(d.words.val)
    ELSE IF d.hocr.kind = "doc" THEN parseHOCR(d.hocr)
    ELSE IF d.text.present THEN textLines(d.text.val)
    ELSE <<>>

nonBlankLines(text) == SelectSeq(SplitLines(text, <<>>), NonBlank)

\* the nested tree, the flat line list, the markup document and the flat
\* word list all yield no line, and the raw text has a non-blank line
OnlyRawText(d) ==
    /\ Len(blockLines(d)) = 0
    /\ ~d.lines.present \/ Len(d.lines.val) = 0
    /\ Len(parseHOCR(d.hocr)) = 0
    /\ ~d.words.present \/ Len(d.words.val) = 0
    /\ d.text.present /\ Len(nonBlankLines(d.text.val)) > 0

\* C4: when only the raw text yields lines, the document has one line per
\* non-blank line of the text, in text order, each with a box and words.
C4_DegradesToRawText ==
    (Ready /\ OnlyRawText(data)) =>
        /\ Len(doc.lines) = Len(nonBlankLines(data.text.val))
        /\ \A i \in 1..Len(doc.lines) :
              /\ doc.lines[i].text = nonBlankLines(data.text.val)[i]
              /\ WellFormed(doc.lines[i].bbox)
              /\ Len(doc.lines[i].words) > 0

\* six digits, a hyphen, seven digits
CanonicalRrn(t) ==
    /\ Len(t) = 14
    /\ \A i \in 1..6 : IsDigit(t[i])
    /\ t[7] = "-"
    /\ \A i \in 8..14 : IsDigit(t[i])

theField(id) == parsed.fields[CHOOSE k \in fieldsWithId(id) : TRUE]

\* C5: a line that is six digits, a hyphen and seven digits yields one
\* NationalIdNumber with the whole text, one BirthDate with the first six
\* digits, one Gender with the digit after the hyphen and one
\* NationalIdBackDigits with the last six digits.
C5_CanonicalRrnFields ==
    Ready =>
        \A i \in 1..Len(doc.lines) :
            CanonicalRrn(doc.lines[i].text) =>
                LET t == doc.lines[i].text
                    idx == i - 1
                IN /\ Cardinality(fieldsWithId(FieldId("rrn-", idx))) = 1
                   /\ theField(FieldId("rrn-", idx)).label = LabelRRN
                   /\ theField(FieldId("rrn-", idx)).value = t
                   /\ Cardinality(fieldsWithId(FieldId("rrn-birth-", idx))) = 1
                   /\ theField(FieldId("rrn-birth-", idx)).label = LabelBirth
                   /\ theField(FieldId("rrn-birth-", idx)).value = SubSeq(t, 1, 6)
                   /\ Cardinality(fieldsWithId(FieldId("rrn-gender-", idx))) = 1
                   /\ theField(FieldId("rrn-gender-", idx)).label = LabelGender
                   /\ theField(FieldId("rrn-gender-", idx)).value = <<t[8]>>
                   /\ Cardinality(fieldsWithId(FieldId("rrn-back-", idx))) = 1
                   /\ theField(FieldId("rrn-back-", idx)).label = LabelBack
                   /\ theField(FieldId("rrn-back-", idx)).value = SubSeq(t, 9, 14)
                   /\ Len(doc.lines) = 1 =>
                         \A l \in {LabelRRN, LabelBirth, LabelGender, LabelBack} :
                             Cardinality(fieldsWithLabel(l)) = 1

C5_Witness ==
    /\ Ready
    /\ Len(doc.lines) = 2
    /\ CanonicalRrn(doc.lines[2].text)
    /\ Cardinality(fieldsWithId("rrn-back-1")) = 1

\* box b lies inside box outer
Contained(b, outer) ==
    /\ outer.x0 <= b.x0 /\ b.x0 <= outer.x1
    /\ outer.x0 <= b.x1 /\ b.x1 <= outer.x1
    /\ outer.y0 <= b.y0 /\ b.y0 <= outer.y1
    /\ outer.y0 <= b.y1 /\ b.y1 <= outer.y1

\* C6: the BirthDate, Gender and NationalIdBackDigits boxes of a line with
\* a well-formed box lie inside the line's box and are ordered left to
\* right in both their left and their right edges.
C6_SubFieldsContainedAndOrdered ==
    Ready =>
        \A i \in 1..Len(doc.lines) :
            (/\ fieldsWithId(FieldId("rrn-", i - 1)) # {}
             /\ fieldsWithId(FieldId("rrn-back-", i - 1)) # {}
             /\ WellFormed(doc.lines[i].bbox)) =>
                LET birth == theField(FieldId("rrn-birth-", i - 1)).bbox
                    gender == theField(FieldId("rrn-gender-", i - 1)).bbox
                    back == theField(FieldId("rrn-back-", i - 1)).bbox
                IN /\ Contained(birth, doc.lines[i].bbox)
                   /\ Contained(gender, doc.lines[i].bbox)
                   /\ Contained(back, doc.lines[i].bbox)
                   /\ birth.x0 <= gender.x0 /\ gender.x0 <= back.x0
                   /\ birth.x1 <= gender.x1 /\ gender.x1 <= back.x1

\* C7: a line whose ID-shaped match has 12 digits or fewer yields none of
\* the four RRN fields and a diagnostic log line.
C7_ShortMatchDiscarded ==
    Ready =>
        \A i \in 1..Len(doc.lines) :
            (/\ rrnRegex(doc.lines[i].text).found
             /\ Len(DigitsOnly(rrnRegex(doc.lines[i].text).all)) <= 12) =>
                /\ \A pre \in {"rrn-", "rrn-birth-", "rrn-gender-", "rrn-back-"} :
                       fieldsWithId(FieldId(pre, i - 1)) = {}
                /\ Len(doc.lines) = 1 =>
                       \A l \in {LabelRRN, LabelBirth, LabelGender, LabelBack} :
                           fieldsWithLabel(l) = {}
                /\ \E k \in 1..Len(parsed.logs) :
                       /\ parsed.logs[k].msg = "Potential RRN match too short/invalid patterns"
                       /\ parsed.logs[k].args = <<i - 1>>

C7_Witness ==
    /\ Ready
    /\ \E i \in 1..Len(doc.lines) :
          /\ rrnRegex(doc.lines[i].text).found
          /\ Len(DigitsOnly(rrnRegex(doc.lines[i].text).all)) = 12
    /\ parsed.fields = <<>>

\* t is 2 digits, a run of non-digits, 6 digits, a run of non-digits and
\* 2 digits
DlShape(t) ==
    \E k1 \in 1..Len(t), k2 \in 1..Len(t) :
        /\ Len(t) = 10 + k1 + k2
        /\ \A i \in 1..Len(t) :
              IsDigit(t[i]) <=> (i <= 2 \/ (i > 2 + k1 /\ i <= 8 + k1) \/ i > 8 + k1 + k2)

\* the 0-based positions and lengths at which t contains a DlShape
DlShapesIn(t) ==
    {pq \in (0..Len(t)) \X (0..Len(t)) :
        /\ pq[2] >= 12
        /\ pq[1] + pq[2] <= Len(t)
        /\ IsDigit(t[pq[1] + 1])
        /\ IsDigit(t[pq[1] + pq[2]])
        /\ DlShape(SubSeq(t, pq[1] + 1, pq[1] + pq[2]))}

\* C8: a line yields a DriverLicenseNumber exactly when its text contains
\* 2 digits, separator, 6 digits, separator, 2 digits; then it yields one,
\* whose value is the leftmost such substring.
C8_DriverLicenseIffShape ==
    Ready =>
        \A i \in 1..Len(doc.lines) :
            LET t == doc.lines[i].text
                ids == fieldsWithId(FieldId("dl-num-", i - 1))
            IN /\ (ids # {}) <=> (DlShapesIn(t) # {})
               /\ Cardinality(ids) <= 1
               /\ \A k \in ids :
                     /\ parsed.fields[k].label = LabelDL
                     /\ \E pq \in DlShapesIn(t) :
                           /\ parsed.fields[k].value = SubSeq(t, pq[1] + 1, pq[1] + pq[2])
                           /\ \A other \in DlShapesIn(t) : pq[1] <= other[1]
               /\ Len(doc.lines) = 1 =>
                     Cardinality(fieldsWithLabel(LabelDL)) = Cardinality(ids)

\* a line with the license shape one digit short, and a line with the shape
C8_Witness ==
    /\ Ready
    /\ Len(doc.lines) = 1
    /\ Len(DigitsOnly(doc.lines[1].text)) = 11
    /\ DigitsOnly(SubSeq(doc.lines[1].text, 1, 1)) # <<>>
    /\ Cardinality(fieldsWithLabel(LabelDL)) = 1

C8_WitnessNine ==
    /\ Ready
    /\ Len(doc.lines) = 1
    /\ Len(DigitsOnly(doc.lines[1].text)) = 9
    /\ fieldsWithLabel(LabelDL) = {}

\* 9 characters, an uppercase letter then eight uppercase letters or digits
PassportShape(t) ==
    /\ Len(t) = 9
    /\ IsUpper(t[1])
    /\ \A i \in 2..9 : IsUpper(t[i]) \/ IsDigit(t[i])

\* C9: a word yields a PassportNumber exactly when it has the passport
\* shape, and every such token among the words of a line yields one.
C9_PassportIffShape ==
    Ready =>
        /\ \A k \in 1..Len(doc.words) :
              (fieldsWithId(FieldId("passport-num-", k - 1)) # {}) <=> PassportShape(doc.words[k].text)
        /\ \A k \in fieldsWithLabel(LabelPassport) : PassportShape(parsed.fields[k].value)
        /\ \A i \in 1..Len(doc.lines) : \A j \in 1..Len(doc.lines[i].words) :
              PassportShape(doc.lines[i].words[j].text) =>
                  \E k \in fieldsWithLabel(LabelPassport) :
                      parsed.fields[k].value = doc.lines[i].words[j].text

\* the full text handed to the classifier
fullText == IF doc.text.present THEN doc.text.val ELSE <<>>

Contains(t, kw) == \E p \in 0..Len(t) : OccursAt(t, kw, p)
ContainsIgnoringCase(t, kw) ==
    \E p \in 0..Len(t) :
        p + Len(kw) <= Len(t) /\ \A i \in 1..Len(kw) : toLowerCaseChar(t[p + i]) = kw[i]

HasDriverKeyword(t) == Contains(t, KwDriving) \/ ContainsIgnoringCase(t, KwDriver)
HasResidentKeyword(t) == Contains(t, KwResident) \/ Contains(t, KwRegistration)
HasPassportKeyword(t) == Contains(t, KwPassportKo) \/ Contains(t, KwPassportEn)

\* C10: a driver-license keyword in the full text gives DriverLicense;
\* otherwise a resident-card keyword gives ResidentCard; otherwise a
\* passport keyword gives Passport; whatever the candidates are.
C10_KeywordPriority ==
    Ready =>
        /\ HasDriverKeyword(fullText) => parsed.idType = TypeDL
        /\ (~HasDriverKeyword(fullText) /\ HasResidentKeyword(fullText)) => parsed.idType = TypeRC
        /\ (~HasDriverKeyword(fullText) /\ ~HasResidentKeyword(fullText)
            /\ HasPassportKeyword(fullText)) => parsed.idType = TypePassport

C10_Witness ==
    /\ Ready
    /\ HasDriverKeyword(fullText)
    /\ HasResidentKeyword(fullText)
    /\ HasPassportKeyword(fullText)
    /\ fieldsWithLabel(LabelPassport) # {}
    /\ fieldsWithLabel(LabelRRN) # {}
    /\ fieldsWithLabel(LabelDL) = {}
    /\ parsed.idType = TypeDL


NoKeyword(t) == ~HasDriverKeyword(t) /\ ~HasResidentKeyword(t) /\ ~HasPassportKeyword(t)

\* C11: without a keyword in the full text the type is DriverLicense when
\* there is a DriverLicenseNumber, else Passport when there is a
\* PassportNumber, else ResidentCardInferred when there is a
\* NationalIdNumber, else Unknown; it is never the plain ResidentCard.
C11_InferenceOrder ==
    (Ready /\ NoKeyword(fullText)) =>
        /\ fieldsWithLabel(LabelDL) # {} => parsed.idType = TypeDL
        /\ (fieldsWithLabel(LabelDL) = {} /\ fieldsWithLabel(LabelPassport) # {}) =>
              parsed.idType = TypePassport
        /\ (fieldsWithLabel(LabelDL) = {} /\ fieldsWithLabel(LabelPassport) = {}
            /\ fieldsWithLabel(LabelRRN) # {}) => parsed.idType = TypeRCInferred
        /\ (fieldsWithLabel(LabelDL) = {} /\ fieldsWithLabel(LabelPassport) = {}
            /\ fieldsWithLabel(LabelRRN) = {}) => parsed.idType = TypeUnknown
        /\ parsed.idType # TypeRC

C11_Witness ==
    /\ Ready
    /\ NoKeyword(fullText)
    /\ fieldsWithLabel(LabelDL) # {}
    /\ fieldsWithLabel(LabelPassport) # {}
    /\ fieldsWithLabel(LabelRRN) # {}
    /\ parsed.idType = TypeDL

\* the regions promoted from candidates and the OtherText regions
candidateRegions == {k \in 1..Len(maskingRegions) : maskingRegions[k].type # TypeText}
otherTextRegions == {k \in 1..Len(maskingRegions) : maskingRegions[k].type = TypeText}
otherTextOfLine(i) == {k \in otherTextRegions : maskingRegions[k].id = FieldId("raw-line-", i - 1)}

boxArea(b) == (b.x1 - b.x0) * (b.y1 - b.y0)
intersectionWidth(a, b) == MinOf(a.x1, b.x1) - MaxOf(a.x0, b.x0)
intersectionHeight(a, b) == MinOf(a.y1, b.y1) - MaxOf(a.y0, b.y0)
intersectionArea(a, b) ==
    IF intersectionWidth(a, b) > 0 /\ intersectionHeight(a, b) > 0
    THEN intersectionWidth(a, b) * intersectionHeight(a, b)
    ELSE 0

\* the intersection with some candidate's box is at least 0.3 of the line's area
ClaimedAtLeast30(line) ==
    /\ boxArea(line.bbox) > 0
    /\ \E k \in candidateRegions :
          10 * intersectionArea(line.bbox, maskingRegions[k].bbox) >= 3 * boxArea(line.bbox)

\* the intersection with some candidate's box has a positive area, more
\* than 0.3 of the line's area
ClaimedOver30(line) ==
    \E k \in candidateRegions :
        /\ intersectionArea(line.bbox, maskingRegions[k].bbox) > 0
        /\ 10 * intersectionArea(line.bbox, maskingRegions[k].bbox) > 3 * boxArea(line.bbox)

\* every OtherText region is the region of a line, with the line's text
\* and box, and is not selected
OtherTextCarriesLine ==
    \A k \in otherTextRegions :
        /\ maskingRegions[k].id \notin selectedRegions
        /\ \E i \in 1..Len(doc.lines) :
              /\ k \in otherTextOfLine(i)
              /\ maskingRegions[k].text = doc.lines[i].text
              /\ maskingRegions[k].bbox = doc.lines[i].bbox

\* C12 as stated: one OtherText region for every line that no candidate
\* claims (covers by 0.3 or more), none for a claimed line; each carries the
\* line's text and box and is not selected.
C12_OtherTextPerUnclaimedLine ==
    Ready =>
        /\ \A i \in 1..Len(doc.lines) :
              Cardinality(otherTextOfLine(i)) = IF ClaimedAtLeast30(doc.lines[i]) THEN 0 ELSE 1
        /\ OtherTextCarriesLine

\* C12 (amended): one OtherText region for every line with a non-blank text
\* that no candidate covers by more than 0.3 of its area, none for a blank
\* line or a line so covered; each carries the line's text and box and is
\* not selected.
C12_OtherTextPerUnclaimedNonBlankLine ==
    Ready =>
        /\ \A i \in 1..Len(doc.lines) :
              Cardinality(otherTextOfLine(i)) =
                  IF NonBlank(doc.lines[i].text) /\ ~ClaimedOver30(doc.lines[i]) THEN 1 ELSE 0
        /\ OtherTextCarriesLine

\* five lines, two of them claimed, three OtherText regions
C12_Witness ==
    /\ Ready
    /\ Len(doc.lines) = 5
    /\ Cardinality({i \in 1..5 : ClaimedOver30(doc.lines[i])}) = 2
    /\ Cardinality(otherTextRegions) = 3

NotSelectedKinds ==
    {LabelBirth, LabelGender, LabelBack, LabelAddress, LabelPeriod, LabelIssueDate,
     LabelAuthority, LabelIdCode, TypeText}

\* C13: once the regions are set, a region is selected exactly when its kind
\* is NationalIdNumber, DriverLicenseNumber or PassportNumber; no region of
\* another kind is selected.
C13_DefaultSelection ==
    Ready =>
        \A k \in 1..Len(maskingRegions) :
            /\ (maskingRegions[k].id \in selectedRegions) <=>
                   (maskingRegions[k].type \in {LabelRRN, LabelDL, LabelPassport})
            /\ maskingRegions[k].type \in NotSelectedKinds =>
                   maskingRegions[k].id \notin selectedRegions

\* a license with a region of every kind but the passport number
C13_Witness ==
    /\ Ready
    /\ \A t \in (NotSelectedKinds \cup {LabelRRN, LabelDL}) :
          \E k \in 1..Len(maskingRegions) : maskingRegions[k].type = t
    /\ Cardinality(selectedRegions) = 2

C15_ZeroWidthFallsBackToLineBox ==
    Ready =>
        \A i \in 1..Len(doc.lines) :
            (/\ fieldsWithId(FieldId("rrn-back-", i - 1)) # {}
             /\ doc.lines[i].bbox.x1 = doc.lines[i].bbox.x0) =>
                /\ theField(FieldId("rrn-birth-", i - 1)).bbox = doc.lines[i].bbox
                /\ theField(FieldId("rrn-gender-", i - 1)).bbox = doc.lines[i].bbox
                /\ theField(FieldId("rrn-back-", i - 1)).bbox = doc.lines[i].bbox

\* the vertical starts of the accepted license number fields, and the lines
\* that contain a region name and start 10px or more from all of them
dlStarts == {parsed.fields[k].bbox.y0 : k \in fieldsWithLabel(LabelDL)}
regionLines == {i \in 1..Len(doc.lines) : hasRegion(doc.lines[i].text)}
qualifyingAnchors ==
    {i \in regionLines : \A y \in dlStarts : Abs(y - doc.lines[i].bbox.y0) >= 10}
startsWith(t, prefix) == Len(t) >= Len(prefix) /\ SubSeq(t, 1, Len(prefix)) = prefix

\* the Address field is anchored at line a: its id carries the line's index,
\* its value begins with the line's text and its box covers the line's box
addressAnchoredAt(a) ==
    \E k \in fieldsWithLabel(LabelAddress) :
        /\ parsed.fields[k].id = FieldId("addr-", a - 1)
        /\ startsWith(parsed.fields[k].value, doc.lines[a].text)
        /\ parsed.fields[k].bbox.x0 <= doc.lines[a].bbox.x0
        /\ parsed.fields[k].bbox.y0 <= doc.lines[a].bbox.y0
        /\ parsed.fields[k].bbox.x1 >= doc.lines[a].bbox.x1
        /\ parsed.fields[k].bbox.y1 >= doc.lines[a].bbox.y1
addressOfAnchors(anchors) ==
    IF anchors = {} THEN fieldsWithLabel(LabelAddress) = {}
    ELSE addressAnchoredAt(Min(anchors))

\* C16: there is at most one Address field; there is none when no line
\* with a region name starts 10px or more from every license number line,
\* and otherwise it is anchored at the first such line: its id carries that
\* line's index, its value begins with that line's text and its box covers
\* that line's box.
C16_SingleAddressAtFirstAnchor ==
    Ready =>
        /\ Cardinality(fieldsWithLabel(LabelAddress)) <= 1
        /\ addressOfAnchors(qualifyingAnchors)

\* a region line beside a license number line is passed over and the
\* address is anchored at a later region line
C16_Witness ==
    /\ Ready
    /\ dlStarts # {}
    /\ qualifyingAnchors # {}
    /\ \E i \in regionLines : i < Min(qualifyingAnchors)
    /\ Cardinality(fieldsWithLabel(LabelAddress)) = 1

\* a region line exactly 10px from the license number line anchors the address
C16_WitnessTenApart ==
    /\ Ready
    /\ qualifyingAnchors # {}
    /\ \E y \in dlStarts : Abs(y - doc.lines[Min(qualifyingAnchors)].bbox.y0) = 10
    /\ fieldsWithLabel(LabelAddress) # {}

\* the only region line is beside the license number line: no address
C16_WitnessNoAddress ==
    /\ Ready
    /\ regionLines # {}
    /\ qualifyingAnchors = {}
    /\ fieldsWithLabel(LabelAddress) = {}

\* the labels of the fields of a driver license only, and of the fields of
\* every document
licenseLabels == {LabelPeriod, LabelIssueDate, LabelAuthority, LabelIdCode}
commonLabels ==
    {LabelRRN, LabelBirth, LabelGender, LabelBack, LabelDL, LabelPassport, LabelAddress}
IsCommon(f) == f.label \in commonLabels
\* the recognized document under a full text that names another type: it
\* is parsed as that type
otherTitle == IF parsed.idType = TypeDL THEN KwPassportEn ELSE KwDriving
retitled == parseOCRResult([doc EXCEPT !.text = Present(otherTitle)])

\* C17: a ValidityPeriod, IssueDate, IssuingAuthority or IdentifierCode field
\* is there only when the type is DriverLicense; the NationalIdNumber (and
\* its sub-fields), DriverLicenseNumber, PassportNumber and Address fields
\* are the same, in the same order, when the same lines and words are
\* parsed as a document of another type.
C17_TypeConditionalFields ==
    Ready =>
        /\ (\E k \in 1..Len(parsed.fields) : parsed.fields[k].label \in licenseLabels)
               => parsed.idType = TypeDL
        /\ retitled.idType # parsed.idType
        /\ SelectSeq(retitled.fields, IsCommon) = SelectSeq(parsed.fields, IsCommon)

\* a driver license with an address, a license number and the four fields
\* of a license
C17_Witness ==
    /\ Ready
    /\ parsed.idType = TypeDL
    /\ \A l \in licenseLabels \cup {LabelAddress, LabelDL} : fieldsWithLabel(l) # {}

\* a document of unknown type with a validity period line: the address is
\* found, the period is not
C17_WitnessUnknown ==
    /\ Ready
    /\ parsed.idType = TypeUnknown
    /\ fieldsWithLabel(LabelAddress) # {}
    /\ \E i \in 1..Len(doc.lines) : periodLine(doc.lines[i], i - 1).fields # <<>>
    /\ fieldsWithLabel(LabelPeriod) = {}

\* a line has no OtherText region
suppressed(i) == otherTextOfLine(i) = {}
\* some candidate covers exactly 0.3 of the line's area
CoveredExactly30(line) ==
    /\ boxArea(line.bbox) > 0
    /\ \E k \in candidateRegions :
          10 * intersectionArea(line.bbox, maskingRegions[k].bbox) = 3 * boxArea(line.bbox)

\* C18 as stated: a line with a non-blank text is suppressed exactly when
\* the intersection with some candidate's box, divided by the line's area,
\* is 0.3 or more.
C18_SuppressedAtThreshold ==
    Ready =>
        \A i \in 1..Len(doc.lines) :
            NonBlank(doc.lines[i].text) => (suppressed(i) <=> ClaimedAtLeast30(doc.lines[i]))

\* C18 (amended): a line with a non-blank text is suppressed exactly when
\* the intersection with some candidate's box, divided by the line's area,
\* is more than 0.3; a line covered by exactly 0.3 and by no more keeps its
\* OtherText region.
C18_SuppressedOverThreshold ==
    Ready =>
        \A i \in 1..Len(doc.lines) :
            NonBlank(doc.lines[i].text) =>
                /\ suppressed(i) <=> ClaimedOver30(doc.lines[i])
                /\ (CoveredExactly30(doc.lines[i]) /\ ~ClaimedOver30(doc.lines[i]))
                       => ~suppressed(i)

\* a line covered by exactly 0.3 keeps its region, and a line covered by
\* more is suppressed
C18_Witness ==
    /\ Ready
    /\ \E i \in 1..Len(doc.lines) :
          /\ NonBlank(doc.lines[i].text)
          /\ CoveredExactly30(doc.lines[i])
          /\ ~ClaimedOver30(doc.lines[i])
          /\ ~suppressed(i)

C18_WitnessSuppressed ==
    /\ Ready
    /\ \E i \in 1..Len(doc.lines) :
          /\ NonBlank(doc.lines[i].text)
          /\ \E k \in candidateRegions :
                /\ 100 * intersectionArea(doc.lines[i].bbox, maskingRegions[k].bbox)
                       = 31 * boxArea(doc.lines[i].bbox)
          /\ suppressed(i)

\* the lines that follow the anchor (line a, 1-based) and are absorbed: the
\* j-th following line is absorbed when its gap to the line before it, the
\* previously absorbed one, is at most 2.5 times that line's height and it
\* holds no ID number, no license number and no date; the run ends at the
\* first line that is not absorbed and after three lines
RECURSIVE absorbedRun(_, _, _)
absorbedRun(lines, a, j) ==
    IF j > 3 \/ a + j > Len(lines) THEN <<>>
    ELSE IF /\ 2 * (lines[a + j].bbox.y0 - lines[a + j - 1].bbox.y1)
                  <= 5 * (lines[a + j - 1].bbox.y1 - lines[a + j - 1].bbox.y0)
            /\ ~rrnRegex(lines[a + j].text).found
            /\ ~dlRegex(lines[a + j].text).found
            /\ ~strictDateRegex(lines[a + j].text)
         THEN <<lines[a + j]>> \o absorbedRun(lines, a, j + 1)
         ELSE <<>>
mergedLines(lines, a) == <<lines[a]>> \o absorbedRun(lines, a, 1)
textsOf(lines) == [k \in 1..Len(lines) |-> lines[k].text]
boxesOf(lines) == [k \in 1..Len(lines) |-> lines[k].bbox]

\* C19: the Address field merges the anchor and the run of at most three
\* following lines absorbed while the gap to the previously absorbed line
\* is at most 2.5 times that line's height and the line is neither an ID
\* number, nor a license number, nor a date: its value is their texts
\* joined by a space and its box is the union of their boxes.
C19_AbsorbsByPreviousLineHeight ==
    Ready =>
        \A k \in fieldsWithLabel(LabelAddress) :
            /\ qualifyingAnchors # {}
            /\ parsed.fields[k].value =
                   Join(textsOf(mergedLines(doc.lines, Min(qualifyingAnchors))), <<" ">>)
            /\ parsed.fields[k].bbox =
                   mergeBBoxes(boxesOf(mergedLines(doc.lines, Min(qualifyingAnchors))))

\* the visiting order of the words: ascending top coordinate, the left
\* coordinate breaking ties
topLeftCompare(a, b) ==
    IF a.bbox.y0 # b.bbox.y0 THEN a.bbox.y0 - b.bbox.y0 ELSE a.bbox.x0 - b.bbox.x0
RECURSIVE insertByTopLeft(_, _)
insertByTopLeft(sorted, w) ==
    IF sorted = <<>> THEN <<w>>
    ELSE IF topLeftCompare(sorted[Len(sorted)], w) > 0
    THEN Append(insertByTopLeft(SubSeq(sorted, 1, Len(sorted) - 1), w), sorted[Len(sorted)])
    ELSE Append(sorted, w)
RECURSIVE visitingOrder(_, _)
visitingOrder(words, sorted) ==
    IF words = <<>> THEN sorted
    ELSE visitingOrder(Tail(words), insertByTopLeft(sorted, Head(words)))

\* a new line is opened when the vertical centers differ by more than 0.6
\* times the height of the box
opensNewLine(lineBBox, wordBBox) ==
    5 * Abs((lineBBox.y0 + lineBBox.y1) - (wordBBox.y0 + wordBBox.y1))
        > 6 * (lineBBox.y1 - lineBBox.y0)

\* the groups of the visited words: each word joins the running group, the
\* last one, unless it opens a new line
RECURSIVE visitedGroups(_, _)
visitedGroups(visited, groups) ==
    IF visited = <<>> THEN groups
    ELSE IF groups = <<>> \/ opensNewLine(mergeBBoxes(boxesOf(groups[Len(groups)])),
                                          Head(visited).bbox)
    THEN visitedGroups(Tail(visited), Append(groups, <<Head(visited)>>))
    ELSE visitedGroups(Tail(visited),
                       [groups EXCEPT ![Len(groups)] = Append(@, Head(visited))])
lineOfGroup(group) == Line(Join(textsOf(group), <<" ">>), mergeBBoxes(boxesOf(group)), group)
reconstructedAsStated(words) ==
    [i \in 1..Len(visitedGroups(visitingOrder(words, <<>>), <<>>)) |->
        lineOfGroup(visitedGroups(visitingOrder(words, <<>>), <<>>)[i])]

\* the lines were reconstructed from the flat word list
FromWords == Ready /\ recoveryPath(data) = "words"

\* C20: the reconstructed lines are the groups of the words visited by
\* ascending top coordinate (left coordinate on ties), a new group being
\* opened exactly when the word's vertical center is more than 0.6 times
\* the running line's height from the running line's center; each line's
\* box is the union of its words' boxes and its text the space-join of its
\* words, so that every word is in exactly one line.
C20_LinesByTopThenLeft ==
    FromWords => doc.lines = reconstructedAsStated(data.words.val)

\* the digits of the tail of an ID match: the digits after the first six
tailDigits(match) == SubSeq(DigitsOnly(match), 7, Len(DigitsOnly(match)))
\* the 0-based offset in the match of its n-th digit (n from 1)
digitOffset(match, n) == NthSmallest(DigitPositions(match), n - 1)
noiseLogs == {k \in 1..Len(parsed.logs) : parsed.logs[k].msg = noiseLog(Ones(8))[1].msg}
rrnLines == {i \in 1..Len(doc.lines) : fieldsWithId(FieldId("rrn-", i - 1)) # {}}
rrnTail(i) == tailDigits(theField(FieldId("rrn-", i - 1)).value)

\* the Gender and NationalIdBackDigits values of line i are cut from the
\* tail after `skipped` digits
cutAfter(i, skipped) ==
    /\ theField(FieldId("rrn-gender-", i - 1)).value = <<rrnTail(i)[skipped + 1]>>
    /\ theField(FieldId("rrn-back-", i - 1)).value = SubSeq(rrnTail(i), skipped + 2, skipped + 7)

\* C21 (values and log): with a tail of exactly 8 digits the first is
\* skipped, Gender is the 2nd tail digit and NationalIdBackDigits the 3rd to
\* 8th, and a log line names the skipped digit; with 7 digits, or 9 or more,
\* nothing is skipped, Gender is the 1st tail digit, and no such log line is
\* written.
C21_EightDigitTailSkipsFirst ==
    Ready =>
        /\ \A i \in rrnLines :
              /\ Len(rrnTail(i)) = 8 =>
                    /\ cutAfter(i, 1)
                    /\ \E k \in noiseLogs : parsed.logs[k].text = <<rrnTail(i)[1]>>
              /\ Len(rrnTail(i)) # 8 => cutAfter(i, 0)
        /\ Cardinality(noiseLogs) = Cardinality({i \in rrnLines : Len(rrnTail(i)) = 8})

\* C21 as stated: the above, and with a tail of 8 digits the Gender box is
\* the box of the one character at the offset of the 2nd tail digit.
C21_GenderBoxAtSecondTailDigit ==
    /\ C21_EightDigitTailSkipsFirst
    /\ Ready =>
          \A i \in rrnLines :
              Len(rrnTail(i)) = 8 =>
                  theField(FieldId("rrn-gender-", i - 1)).bbox =
                      getBBoxForRange(doc.lines[i], theField(FieldId("rrn-", i - 1)).value,
                                      digitOffset(theField(FieldId("rrn-", i - 1)).value, 8), 1)

\* a tail of 8 digits after a hyphen, and a tail of 9 digits
C21_Witness ==
    /\ Ready
    /\ \E i \in rrnLines :
          /\ Len(rrnTail(i)) = 8
          /\ Includes(doc.lines[i].text, <<"-">>)
          /\ theField(FieldId("rrn-gender-", i - 1)).value = <<rrnTail(i)[2]>>
          /\ noiseLogs # {}

C21_WitnessNine ==
    /\ Ready
    /\ \E i \in rrnLines :
          /\ Len(rrnTail(i)) >= 9
          /\ theField(FieldId("rrn-gender-", i - 1)).value = <<rrnTail(i)[1]>>
          /\ noiseLogs = {}

\* the number of characters between the six leading digits of an ID match
\* and the first digit of its tail
separatorLength(match) == digitOffset(match, 7) - 6

\* C22: a NationalIdNumber field is produced only from a match of six
\* digits, a separator run of 1 to 3 characters and a tail that begins with
\* a digit: no field comes from a match without a separator or with a
\* separator run of more than 3 characters.
C22_RrnOnlyWithSeparator ==
    Ready =>
        \A i \in rrnLines :
            /\ separatorLength(theField(FieldId("rrn-", i - 1)).value) >= 1
            /\ separatorLength(theField(FieldId("rrn-", i - 1)).value) <= 3

\* the lines (1-based) that gave a ValidityPeriod field, the IssueDate
\* field and an accepted NationalIdNumber field
periodLines == {i \in 1..Len(doc.lines) : fieldsWithId(FieldId("period-", i - 1)) # {}}
issueLines == {i \in 1..Len(doc.lines) : fieldsWithId(FieldId("issue-date-", i - 1)) # {}}
rrnStarts == {parsed.fields[k].bbox.y0 : k \in fieldsWithLabel(LabelRRN)}
besideRrn(i) == \E y \in rrnStarts : Abs(y - doc.lines[i].bbox.y0) < 10

\* C23: in a driver license no line gives both a ValidityPeriod and the
\* IssueDate, and the line of the IssueDate does not start within 10px of
\* the start of a NationalIdNumber line.
C23_NoLineClaimedTwice ==
    (Ready /\ parsed.idType = TypeDL) =>
        \A i \in issueLines : i \notin periodLines /\ ~besideRrn(i)

\* line i holds a date, gave no ValidityPeriod and is not beside an ID
\* number line
qualifies(i) ==
    dateRegex(doc.lines[i].text).found /\ i \notin periodLines /\ ~besideRrn(i)
qualifyingLines == {i \in 1..Len(doc.lines) : qualifies(i)}
authorityLines ==
    {i \in 1..Len(doc.lines) : fieldsWithId(FieldId("issue-authority-", i - 1)) # {}}
\* box b is the box of len characters from start in the text of the line
spanOf(b, line, start, len) == b = interpolateBBox(line.bbox, Len(line.text), start, len)

\* the date and the authority of line i have each their own box inside the
\* line's box
splitBoxes(i) ==
    /\ Contained(theField(FieldId("issue-date-", i - 1)).bbox, doc.lines[i].bbox)
    /\ Contained(theField(FieldId("issue-authority-", i - 1)).bbox, doc.lines[i].bbox)
    /\ theField(FieldId("issue-date-", i - 1)).bbox # doc.lines[i].bbox
    /\ theField(FieldId("issue-authority-", i - 1)).bbox # doc.lines[i].bbox
    /\ spanOf(theField(FieldId("issue-date-", i - 1)).bbox, doc.lines[i],
              dateRegex(doc.lines[i].text).index, Len(dateRegex(doc.lines[i].text).all))
    /\ spanOf(theField(FieldId("issue-authority-", i - 1)).bbox, doc.lines[i],
              authorityRegex(doc.lines[i].text).index,
              Len(authorityRegex(doc.lines[i].text).all))

\* the shape of the issue fields: at most one IssueDate; an IssuingAuthority
\* only on the IssueDate's line, exactly when that line matches the
\* authority grammar, and then with split boxes, the whole line's box
\* otherwise
IssueFieldsShape ==
    /\ Cardinality(fieldsWithLabel(LabelIssueDate)) <= 1
    /\ Cardinality(fieldsWithLabel(LabelIssueDate)) = Cardinality(issueLines)
    /\ Cardinality(fieldsWithLabel(LabelAuthority)) = Cardinality(authorityLines)
    /\ authorityLines \subseteq issueLines
    /\ \A i \in issueLines :
          /\ i \in authorityLines <=> authorityRegex(doc.lines[i].text).found
          /\ i \in authorityLines => splitBoxes(i)
          /\ i \notin authorityLines =>
                theField(FieldId("issue-date-", i - 1)).bbox = doc.lines[i].bbox

\* C24: in a driver license there is at most one IssueDate, and it comes
\* from the bottom-most line that holds a date and qualifies (it gave no
\* ValidityPeriod and is not beside an ID number line); the
\* IssuingAuthority comes from that line only, when it matches the
\* authority grammar, and then both have their own interpolated box inside
\* the line's box.
C24_IssueDateFromBottomMostLine ==
    (Ready /\ parsed.idType = TypeDL) =>
        /\ IssueFieldsShape
        /\ issueLines = IF qualifyingLines = {} THEN {} ELSE {Max(qualifyingLines)}

\* box b spans, of the `total` characters laid out evenly over the line's
\* width, at least the len characters from start on: its left edge is at or
\* before the first one's, its right edge at or after the last one's
coversSpan(b, line, total, start, len) ==
    /\ total * (b.x0 - line.bbox.x0) <= (line.bbox.x1 - line.bbox.x0) * start
    /\ total * (b.x1 - line.bbox.x0) >= (line.bbox.x1 - line.bbox.x0) * (start + len)
\* the top and the bottom of b are the line's, each moved inward by 15% of
\* the line's height, to the whole pixel outside
shrunkBy15(b, line) ==
    /\ 100 * b.y0 <= 100 * line.bbox.y0 + 15 * (line.bbox.y1 - line.bbox.y0)
    /\ 100 * (b.y0 + 1) > 100 * line.bbox.y0 + 15 * (line.bbox.y1 - line.bbox.y0)
    /\ 100 * b.y1 >= 100 * line.bbox.y1 - 15 * (line.bbox.y1 - line.bbox.y0)
    /\ 100 * (b.y1 - 1) < 100 * line.bbox.y1 - 15 * (line.bbox.y1 - line.bbox.y0)
subBoxOf(b, line, total, start, len) == coversSpan(b, line, total, start, len) /\ shrunkBy15(b, line)

\* the number of tail digits skipped on line i, and the ID match of line i
skippedOn(i) == IF Len(rrnTail(i)) = 8 THEN 1 ELSE 0
rrnMatchOf(i) == theField(FieldId("rrn-", i - 1)).value

\* the three sub-fields of the ID number of line i cover their characters
\* of the match: the six leading digits, the gender digit, and the six
\* digits after it up to the last of them
rrnSubBoxes(i) ==
    /\ subBoxOf(theField(FieldId("rrn-birth-", i - 1)).bbox, doc.lines[i],
                visibleLength(rrnMatchOf(i)), 0, 6)
    /\ subBoxOf(theField(FieldId("rrn-gender-", i - 1)).bbox, doc.lines[i],
                visibleLength(rrnMatchOf(i)), digitOffset(rrnMatchOf(i), 7 + skippedOn(i)), 1)
    /\ subBoxOf(theField(FieldId("rrn-back-", i - 1)).bbox, doc.lines[i],
                visibleLength(rrnMatchOf(i)), digitOffset(rrnMatchOf(i), 8 + skippedOn(i)),
                digitOffset(rrnMatchOf(i), 13 + skippedOn(i))
                    - digitOffset(rrnMatchOf(i), 8 + skippedOn(i)) + 1)

\* the split IssueDate and IssuingAuthority of line i cover their
\* characters of the line's text
issueSubBoxes(i) ==
    /\ subBoxOf(theField(FieldId("issue-date-", i - 1)).bbox, doc.lines[i], Len(doc.lines[i].text),
                dateRegex(doc.lines[i].text).index, Len(dateRegex(doc.lines[i].text).all))
    /\ subBoxOf(theField(FieldId("issue-authority-", i - 1)).bbox, doc.lines[i],
                Len(doc.lines[i].text), authorityRegex(doc.lines[i].text).index,
                Len(authorityRegex(doc.lines[i].text).all))

\* C25: the box of every sub-field cut from a line (BirthDate, Gender,
\* NationalIdBackDigits, split IssueDate and IssuingAuthority) reaches from
\* at or before x0 + charWidth * start to at or after
\* x0 + charWidth * (start + length), charWidth being the line's width over
\* the number of characters, and its top and bottom are the line's moved
\* inward by 15% of the line's height.
C25_SubBoxesCoverSpan ==
    Ready =>
        /\ \A i \in rrnLines : rrnSubBoxes(i)
        /\ \A i \in authorityLines : issueSubBoxes(i)

\* the visible text of a line: without its leading and trailing white space
visibleText(t) == Trim(t)
\* the 0-based offset of the ID match of line i in the line's visible text
matchOffset(i) ==
    rrnRegex(doc.lines[i].text).index - firstVisibleIdx(doc.lines[i].text)

\* C26: the BirthDate box of an ID number is positioned by the offset of
\* the match in the line's visible text: it reaches from at or before
\* x0 + charWidth * k to at or after x0 + charWidth * (k + 6), k being the
\* offset of the match and charWidth the line's width over the length of
\* the line's visible text; with other text before the match (k > 0) it
\* does not start at the line's left edge.
C26_BirthBoxAtMatchOffset ==
    Ready =>
        \A i \in rrnLines :
            /\ coversSpan(theField(FieldId("rrn-birth-", i - 1)).bbox, doc.lines[i],
                          Len(visibleText(doc.lines[i].text)), matchOffset(i), 6)
            /\ (matchOffset(i) > 0 /\ doc.lines[i].bbox.x1 - doc.lines[i].bbox.x0 >= 100) =>
                   theField(FieldId("rrn-birth-", i - 1)).bbox.x0 > doc.lines[i].bbox.x0

\* every line box and every word box of the recognized document is well formed
inputBoxesWellFormed ==
    /\ \A i \in 1..Len(doc.lines) :
          /\ WellFormed(doc.lines[i].bbox)
          /\ \A w \in 1..Len(doc.lines[i].words) : WellFormed(doc.lines[i].words[w].bbox)
    /\ \A w \in 1..Len(doc.words) : WellFormed(doc.words[w].bbox)

\* C27: when every line box and every word box has x1 >= x0 and y1 >= y0,
\* so has the box of every field and of every region, whatever the width
\* of the lines.
C27_BoxesWellFormed ==
    (Ready /\ inputBoxesWellFormed) =>
        /\ \A k \in 1..Len(parsed.fields) : WellFormed(parsed.fields[k].bbox)
        /\ \A k \in 1..Len(maskingRegions) : WellFormed(maskingRegions[k].bbox)

\* C28: no two regions of the region list have the same id, whatever the
\* OCR completions, the toggles and the manual draws have been, two manual
\* regions drawn in quick succession included.
C28_RegionIdsUnique ==
    \A j \in 1..Len(maskingRegions), k \in 1..Len(maskingRegions) :
        j # k => maskingRegions[j].id # maskingRegions[k].id

\* the ids of the region list, and the selection after a click on id
regionIds == {maskingRegions[k].id : k \in 1..Len(maskingRegions)}
flipped(id) == IF id \in selectedRegions THEN selectedRegions \ {id} ELSE selectedRegions \cup {id}
\* the rectangle being drawn is more than 5px wide and more than 5px high
moreThan5px ==
    /\ startPos # <<>>
    /\ currentPos # <<>>
    /\ startPos[1].x - currentPos[1].x \notin -5..5
    /\ startPos[1].y - currentPos[1].y \notin -5..5
\* the mouse is released
released == isDrawing /\ ~isDrawing'
\* the region list gets one more region, of type Manual, and its id is selected
appendsManual ==
    /\ Len(maskingRegions') = Len(maskingRegions) + 1
    /\ SubSeq(maskingRegions', 1, Len(maskingRegions)) = maskingRegions
    /\ maskingRegions'[Len(maskingRegions')].type = TypeManual
    /\ selectedRegions' = selectedRegions \cup {maskingRegions'[Len(maskingRegions')].id}
\* every region of the list can be clicked, which flips its id in the
\* selection and leaves the list unchanged
clickFlips ==
    \A id \in regionIds :
        ENABLED (NextWorkspace /\ selectedRegions' = flipped(id)
                 /\ UNCHANGED <<maskingRegions, isDrawing, status>>)
\* a step of the ready workspace that changes the selection and is not the
\* release of the mouse flips one id of the list and leaves the list unchanged
toggleStep ==
    (status = "ready" /\ status' = "ready" /\ selectedRegions' # selectedRegions /\ ~released) =>
        /\ maskingRegions' = maskingRegions
        /\ \E id \in regionIds : selectedRegions' = flipped(id)
\* the release of the mouse appends a manual region and selects it when the
\* rectangle is more than 5px in both dimensions, and changes neither the
\* list nor the selection when it is not; nothing else changes the list of
\* the ready workspace
drawStep ==
    /\ released =>
          IF moreThan5px THEN appendsManual
          ELSE UNCHANGED <<maskingRegions, selectedRegions>>
    /\ (status = "ready" /\ status' = "ready" /\ maskingRegions' # maskingRegions) =>
          released /\ moreThan5px

\* C29: the selection holds only ids of regions of the list; a click on a
\* region adds its id to the selection or removes it from the selection and
\* leaves the list unchanged; a rectangle drawn with the mouse appends one
\* region and selects it exactly when it is more than 5px in both dimensions.
C29_SelectionWithinRegions ==
    /\ [](selectedRegions \subseteq regionIds)
    /\ [](Ready => clickFlips)
    /\ [][toggleStep /\ drawStep]_vars

\* a rectangle has been drawn and is selected, a region that is not selected
\* by default has been selected and one that is has been removed
C29_Witness ==
    /\ Ready
    /\ \E k \in manualRegions : maskingRegions[k].id \in selectedRegions
    /\ \E k \in otherTextRegions : maskingRegions[k].id \in selectedRegions
    /\ defaultSelected(parsed) # {}
    /\ defaultSelected(parsed) \cap selectedRegions = {}


\* the step to 'ready' is the one in which the pending call resolves, and it
\* sets the regions and the default selection of the call's result
becomesReady ==
    (status # "ready" /\ status' = "ready") =>
        /\ ocrCall = "pending"
        /\ ocrCall' = "resolved"
        /\ ocrResult' = <<performOCR(data)>>
        /\ maskingRegions' = newRegions(ocrResult'[1], parseOCRResult(ocrResult'[1]))
        /\ selectedRegions' = defaultSelected(parseOCRResult(ocrResult'[1]))
\* a rejected call stays rejected
staysRejected == ocrCall = "rejected" => ocrCall' = "rejected"

\* C30: the status is 'ready' only once the OCR call of the image has
\* resolved, and it becomes 'ready' in the step that sets the region list
\* and the default selection from the call's result; once the call has
\* rejected, the status is 'processing' and the region list and the
\* selection are empty, from then on.
C30_ReadyOnlyAfterResolve ==
    /\ [](Ready => ocrCall = "resolved")
    /\ [](ocrCall = "rejected" =>
            (status = "processing" /\ maskingRegions = <<>> /\ selectedRegions = {}))
    /\ [][becomesReady /\ staysRejected]_vars

\* the call has rejected and time has passed: the loader is still shown
C30_Witness ==
    /\ ocrCall = "rejected"
    /\ now = MaxClock
    /\ status = "processing"
    /\ maskingRegions = <<>>

\* the call has resolved: the workspace is ready with regions, some selected
C30_WitnessReady ==
    /\ ocrCall = "resolved"
    /\ Ready
    /\ selectedRegions # {}
    /\ Len(maskingRegions) > Cardinality(selectedRegions)
====
